---------------------------- MODULE Spec2Model ----------------------------
(***************************************************************************)
(* A model of the streaming example scripts of the repository:             *)
(*   - the WebSocket script (src/unnamed/part_002): the subscription       *)
(*     table, the subscribe/unsubscribe requests, the message handler,     *)
(*     the keep-alive ping and the process signal handler;                 *)
(*   - the geyser script (src/scripts/helius-geyser.ts): the keep-alive    *)
(*     timer of a stream and the recursive convertBuffers.                 *)
(***************************************************************************)
EXTENDS Integers, Sequences, FiniteSets, TLC

(***************************************************************************)
(* JavaScript values, tagged by their kind so that values of different     *)
(* kinds can be compared.                                                  *)
(***************************************************************************)
Undef == [k |-> "undefined"]
Null == [k |-> "null"]
Num(n) == [k |-> "number", n |-> n]
Str(s) == [k |-> "string", s |-> s]
Bool(b) == [k |-> "boolean", b |-> b]
Obj(f) == [k |-> "object", f |-> f]

\* typeof v === 'number'
IsNumber(v) == v.k = "number"

\* Whether a property of v can be read: reading a property of null or
\* undefined throws a TypeError.
HasProps(v) == v.k \notin {"undefined", "null"}

\* v[name]: a missing property, and any property of a primitive, is undefined.
Get(v, name) ==
  IF v.k = "object" /\ name \in DOMAIN v.f THEN v.f[name] ELSE Undef

\* The truthiness of a value, as the operator || tests it.
Truthy(v) ==
  CASE v.k = "undefined" -> FALSE
    [] v.k = "null" -> FALSE
    [] v.k = "number" -> v.n # 0
    [] v.k = "string" -> v.s # ""
    [] v.k = "boolean" -> v.b
    [] OTHER -> TRUE

Digit(d) ==
  CASE d = 0 -> "0" [] d = 1 -> "1" [] d = 2 -> "2" [] d = 3 -> "3"
    [] d = 4 -> "4" [] d = 5 -> "5" [] d = 6 -> "6" [] d = 7 -> "7"
    [] d = 8 -> "8" [] OTHER -> "9"

RECURSIVE NumToStr(_)
\* The decimal text of a natural number.
NumToStr(n) == IF n < 10 THEN Digit(n) ELSE NumToStr(n \div 10) \o Digit(n % 10)

\* `${v}`: the text a template literal gives for a value.
TemplateStr(v) ==
  CASE v.k = "undefined" -> "undefined"
    [] v.k = "null" -> "null"
    [] v.k = "number" -> NumToStr(v.n)
    [] v.k = "string" -> v.s
    [] v.k = "boolean" -> (IF v.b THEN "true" ELSE "false")
    [] OTHER -> "[object Object]"

(***************************************************************************)
(* Bounds and inputs.                                                      *)
(***************************************************************************)
\* The number of requests, messages and timer ticks of one run.
MaxEvents == 3

\* The arguments the usage examples pass.
AccountPubkey == "83astBRguLMdt2h5U1Tpdq5tjFoJ6noeGwaY3mDLVcri"
ProgramId == "TokenkegQfeZyiNwAJbNbGKPFXCWuBvf9Ss623VQ5DA"
LogsMention == "11111111111111111111111111111111"
Signature == "2EBVM6cB8vAAD93Ktr6Vd8p67XPbQzCJX47MpReuiCXJAtcjaxpvWpcg9Ege1Nr5Tk3a2GFrByT7WPBjdsTycY9b"

\* The subscription types a caller passes to unsubscribe.
UnsubscribeTypes == {"account", "slot"}

\* The frames the server sends, as the text of data.toString().
FrameSlotReply == "{\"id\":5,\"result\":5}"
FrameAccountReply == "{\"id\":1,\"result\":7}"
FrameAccountReply2 == "{\"id\":1,\"result\":8}"
FrameStrayReply == "{\"id\":9,\"result\":7}"
FrameNoIdReply == "{\"result\":8}"
FrameUnsubReply == "{\"id\":7,\"result\":true}"
FrameSlotNote == "{\"method\":\"slotNotification\",\"params\":{\"result\":{\"slot\":12345}}}"
FrameAccountNote == "{\"method\":\"accountNotification\",\"params\":{\"result\":{\"lamports\":1}}}"
FrameNoParams == "{\"method\":\"slotNotification\"}"
FrameNumNote == "{\"method\":\"rootNotification\",\"result\":5}"
FrameNull == "null"
FrameBad == "not json"

Frames ==
  { FrameSlotReply, FrameAccountReply, FrameAccountReply2, FrameStrayReply,
    FrameNoIdReply, FrameUnsubReply, FrameSlotNote, FrameAccountNote,
    FrameNoParams, FrameNumNote, FrameNull, FrameBad }

\* Whether JSON.parse accepts the text.
JSONValid(data) == data # FrameBad

\* JSON.parse(data), for the frames above.
JSONparse(data) ==
  CASE data = FrameSlotReply -> Obj([id |-> Num(5), result |-> Num(5)])
    [] data = FrameAccountReply -> Obj([id |-> Num(1), result |-> Num(7)])
    [] data = FrameAccountReply2 -> Obj([id |-> Num(1), result |-> Num(8)])
    [] data = FrameStrayReply -> Obj([id |-> Num(9), result |-> Num(7)])
    [] data = FrameNoIdReply -> Obj([result |-> Num(8)])
    [] data = FrameUnsubReply -> Obj([id |-> Num(7), result |-> Bool(TRUE)])
    [] data = FrameSlotNote ->
         Obj([method |-> Str("slotNotification"),
              params |-> Obj([result |-> Obj([slot |-> Num(12345)])])])
    [] data = FrameAccountNote ->
         Obj([method |-> Str("accountNotification"),
              params |-> Obj([result |-> Obj([lamports |-> Num(1)])])])
    [] data = FrameNoParams -> Obj([method |-> Str("slotNotification")])
    [] data = FrameNumNote ->
         Obj([method |-> Str("rootNotification"), result |-> Num(5)])
    [] OTHER -> Null

(***************************************************************************)
(* The state.                                                              *)
(***************************************************************************)
VARIABLES
  readyState,     \* ws.readyState
  subscriptions,  \* the subscription table: method name -> subscription id
  sent,           \* the requests handed to ws.send, in order
  received,       \* the frames the message handler has been called with
  out,            \* the console lines of the handler that ran last
  pingTimer,      \* whether startPing's interval is running
  ticks,          \* the interval callbacks that have run
  pings,          \* the calls of socket.ping()
  proc,           \* the process: "running", "exited" (status 0), "crashed"
  sockets         \* the calls of new WebSocket(...)

wsVars ==
  <<readyState, subscriptions, sent, received, out, pingTimer, ticks, pings, proc,
    sockets>>

\* The geyser script: one stream of one subscribe example.
VARIABLES
  gPc,            \* the example: "idle", "writing", "streaming", "failed"
  gWritable,      \* the stream's writable side: "open", or "ended" by stream.end()
  gReadEnded,     \* whether the stream has emitted 'end'
  gDestroyed,     \* stream.destroyed
  gClosed,        \* whether the stream has emitted 'close'
  gStreamClosed,  \* the streamClosed promise: "pending", "resolved", "rejected"
  gInterval,      \* whether setupPingInterval's interval is running
  gTicks,         \* the interval callbacks that have run
  gPingWrites,    \* the calls of stream.write(pingRequest)
  gPending,       \* the ping writes whose callback has not run yet
  gOut,           \* the console lines of the handler that ran last
  gHandlers,      \* whether the stream's handlers are registered
  gRequests,      \* the subscribe requests written to the stream
  gCaught         \* the error main's catch has logged, undefined before

gVars ==
  <<gPc, gWritable, gReadEnded, gDestroyed, gClosed, gStreamClosed, gInterval,
    gTicks, gPingWrites, gPending, gOut, gHandlers, gRequests, gCaught>>

\* One call of convertBuffers.
VARIABLES
  cInput,         \* the argument
  cResult,        \* the value returned
  cPc             \* "call" before the call, "done" after it

cVars == <<cInput, cResult, cPc>>

\* Calls of the HTTP query helpers, one after the other.
VARIABLES
  hPc,            \* the call: "idle", "fetching", "decoding", "returned", "rejected"
  hCalls,         \* the helper calls made so far
  hPosted,        \* the requests handed to fetch, in order
  hReply,         \* what fetch settled with: a response, or the network failure
  hResult         \* what the caller got: the value returned or the error thrown

hVars == <<hPc, hCalls, hPosted, hReply, hResult>>

\* The lookup-table examples of the toolbox, run one after the other.
VARIABLES
  lSlot,          \* the finalized slot the cluster reports
  lTables,        \* the addresses of the lookup tables created so far
  lRuns,          \* the examples run: the function, the table address it
                  \* passed, and whether a table exists at that address
  lTxPc,          \* createLutForTransactionExample: "idle", "creating" while
                  \* it sends, then "done" or "failed"
  lTxBuilders,    \* the number of builders in createLutBuilders
  lTxSent         \* the transactions it sent, in the order sent, each with
                  \* what became of it

lVars == <<lSlot, lTables, lRuns, lTxPc, lTxBuilders, lTxSent>>

\* The start of a streaming script: its configuration constants.
VARIABLES
  ePc,            \* the script started: "none", "ws" or "geyser"
  eEnv,           \* process.env: the three variables the scripts read
  eFile,          \* the .env file dotenv loads
  eRead,          \* process.env as it was when the constants were defined
  eConst          \* the constants: HELIUS_API_KEY, HELIUS_WSS_URL, GRPC_URL, X_TOKEN

eVars == <<ePc, eEnv, eFile, eRead, eConst>>

\* The token walkthrough: the commands of the guide, typed one after the other.
VARIABLES
  tPc,            \* the position in the guide of the command typed next
  tConfig,        \* the CLI configuration: keypair path and RPC URL
  tFiles,         \* the keypair files in the project folder
  tWallet,        \* the address of the wallet keypair ground, "" before
  tMintKey,       \* the address of the mint keypair ground, "" before
  tMint,          \* the token mint on the chain, Null before it is created
  tAccount,       \* the token account on the chain, Null before it is created
  tTxs            \* the transactions submitted: command, cluster URL, outcome

tVars == <<tPc, tConfig, tFiles, tWallet, tMintKey, tMint, tAccount, tTxs>>

VARIABLES
  dExample,       \* the example whose data handler is registered
  dData,          \* the record the stream delivers
  dPc,            \* "received", then "handled" or "threw"
  dOut            \* the lines the handler logged

dVars == <<dExample, dData, dPc, dOut>>

vars == <<wsVars, gVars, cVars, hVars, lVars, eVars, tVars, dVars>>

\* The events of the run so far.
Events == Len(sent) + Len(received) + ticks

Line(text, arg) == [text |-> text, arg |-> arg]

(***************************************************************************)
(* The requests.                                                           *)
(***************************************************************************)
Request(id, method, params) ==
  [jsonrpc |-> "2.0", id |-> id, method |-> method, hasParams |-> TRUE,
   params |-> params]

RequestNoParams(id, method) ==
  [jsonrpc |-> "2.0", id |-> id, method |-> method, hasParams |-> FALSE,
   params |-> << >>]

\* ws.send(JSON.stringify(request)) followed by one console line.
Send(request, line) ==
  /\ proc = "running"
  /\ Events < MaxEvents
  /\ sent' = Append(sent, request)
  /\ out' = <<line>>
  /\ UNCHANGED <<readyState, subscriptions, received, pingTimer, ticks, pings, proc,
                 sockets>>

subscribeToAccount(accountPubkey) ==
  /\ readyState = "OPEN"
  /\ Send(Request(1, "accountSubscribe",
                  <<Str(accountPubkey),
                    Obj([encoding |-> Str("jsonParsed"),
                         commitment |-> Str("finalized")])>>),
          Line("Subscribed to account: " \o accountPubkey, Undef))

subscribeToProgram(programId) ==
  /\ readyState = "OPEN"
  /\ Send(Request(2, "programSubscribe",
                  <<Str(programId),
                    Obj([encoding |-> Str("jsonParsed"),
                         commitment |-> Str("finalized")])>>),
          Line("Subscribed to program: " \o programId, Undef))

subscribeToLogs(mention) ==
  /\ readyState = "OPEN"
  /\ Send(Request(3, "logsSubscribe",
                  <<Obj([mentions |-> <<Str(mention)>>]),
                    Obj([commitment |-> Str("finalized")])>>),
          Line("Subscribed to logs with filter: ", Obj([mentions |-> <<Str(mention)>>])))

subscribeToSignature(signature) ==
  /\ readyState = "OPEN"
  /\ Send(Request(4, "signatureSubscribe",
                  <<Str(signature),
                    Obj([commitment |-> Str("finalized"),
                         enableReceivedNotification |-> Bool(FALSE)])>>),
          Line("Subscribed to signature: " \o signature, Undef))

subscribeToSlot ==
  /\ readyState = "OPEN"
  /\ Send(RequestNoParams(5, "slotSubscribe"),
          Line("Subscribed to slot updates", Undef))

\* A root subscription that reuses the id of the slot subscription.
subscribeToRoot_copiedId ==
  /\ readyState = "OPEN"
  /\ Send(RequestNoParams(5, "rootSubscribe"),
          Line("Subscribed to root updates", Undef))

subscribeToRoot ==
  /\ readyState = "OPEN"
  /\ Send(RequestNoParams(6, "rootSubscribe"),
          Line("Subscribed to root updates", Undef))

\* The request unsubscribe(subscriptionId, type) builds.
unsubscribeRequest(subscriptionId, type) ==
  Request(7, type \o "Unsubscribe", <<subscriptionId>>)

\* unsubscribe(subscriptionId, type), called from a timer once the socket
\* has opened, with an id read from the table: the usage example passes
\* subscriptions[key] and the key itself as the type.
unsubscribe(subscriptionId, type) ==
  /\ pingTimer
  /\ Send(unsubscribeRequest(subscriptionId, type),
          Line("Unsubscribed from " \o type \o " with ID: " \o TemplateStr(subscriptionId),
               Undef))

(***************************************************************************)
(* The message handler.                                                    *)
(***************************************************************************)
\* The test without its typeof half: any result is taken for an id.
IsSubscriptionId_anyResult(message) == Get(message, "result") # Undef

\* if (message.result !== undefined && typeof message.result === 'number')
IsSubscriptionId(message) ==
  /\ Get(message, "result") # Undef
  /\ IsNumber(Get(message, "result"))

\* message.method || `subscription${message.id}`
methodName(message) ==
  IF Truthy(Get(message, "method"))
  THEN TemplateStr(Get(message, "method"))
  ELSE "subscription" \o TemplateStr(Get(message, "id"))

\* A store that keeps the entry a key already has.
storeSubscription_keepFirst(subs, message) ==
  subs @@ (methodName(message) :> Get(message, "result"))

\* subscriptions[methodName] = message.result
storeSubscription(subs, message) ==
  (methodName(message) :> Get(message, "result")) @@ subs

NotificationLines ==
  [ accountNotification |-> "Account update received:",
    programNotification |-> "Program update received:",
    logsNotification |-> "Log update received:",
    signatureNotification |-> "Signature status update:",
    slotNotification |-> "Slot update:",
    rootNotification |-> "Root update:" ]

\* Whether message.method is one of the names the if/else chain tests.
IsNotification(message) ==
  /\ Get(message, "method").k = "string"
  /\ Get(message, "method").s \in DOMAIN NotificationLines

\* The body of the try block: the table and the lines it leaves, and the
\* error it throws ("none" when it completes).
tryBlock(subs, data) ==
  IF ~JSONValid(data)
  THEN [subscriptions |-> subs, out |-> << >>, error |-> "SyntaxError"]
  ELSE
    LET message == JSONparse(data) IN
    IF ~HasProps(message)
    THEN [subscriptions |-> subs, out |-> << >>, error |-> "TypeError"]
    ELSE
      LET stored == IsSubscriptionId(message)
          subs1 == IF stored THEN storeSubscription(subs, message) ELSE subs
          out1 == IF stored
                  THEN <<Line("Subscription ID for " \o methodName(message) \o ": "
                              \o TemplateStr(Get(message, "result")), Undef)>>
                  ELSE << >>
      IN
      IF IsNotification(message)
      THEN
        IF ~HasProps(Get(message, "params"))
        THEN [subscriptions |-> subs1, out |-> out1, error |-> "TypeError"]
        ELSE [subscriptions |-> subs1,
              out |-> Append(out1, Line(NotificationLines[Get(message, "method").s],
                                        Get(Get(message, "params"), "result"))),
              error |-> "none"]
      ELSE [subscriptions |-> subs1,
            out |-> Append(out1, Line("Received message:", message)),
            error |-> "none"]

ParseErrorText == "Failed to parse WebSocket message:"

\* The handler without its catch: the error leaves the handler.
incoming_nocatch(subs, data) ==
  LET r == tryBlock(subs, data) IN
  [subscriptions |-> r.subscriptions, out |-> r.out, threw |-> r.error # "none"]

\* function incoming(data): the try block and its catch.
incoming(subs, data) ==
  LET r == tryBlock(subs, data) IN
  IF r.error = "none"
  THEN [subscriptions |-> r.subscriptions, out |-> r.out, threw |-> FALSE]
  ELSE [subscriptions |-> r.subscriptions,
        out |-> Append(r.out, Line(ParseErrorText, Str(r.error))),
        threw |-> FALSE]

\* ws.on('message'): a frame arrives on the open socket.
WsMessage(data) ==
  /\ proc = "running"
  /\ readyState = "OPEN"
  /\ Events < MaxEvents
  /\ LET r == incoming(subscriptions, data) IN
       /\ subscriptions' = r.subscriptions
       /\ out' = r.out
       /\ proc' = IF r.threw THEN "crashed" ELSE proc
  /\ received' = Append(received, data)
  /\ UNCHANGED <<readyState, sent, pingTimer, ticks, pings, sockets>>

(***************************************************************************)
(* The connection, the keep-alive and the signal.                          *)
(***************************************************************************)
\* A 'close' handler that drops the table.
tableAfterClose_cleared(subs) == << >>

\* The table the 'close' handler leaves: it only logs.
tableAfterClose(subs) == subs

\* ws.on('open'): logs and calls startPing(ws), which starts the interval.
WsOpen ==
  /\ proc = "running"
  /\ readyState = "CONNECTING"
  /\ readyState' = "OPEN"
  /\ pingTimer' = TRUE
  /\ out' = <<Line("WebSocket connection established", Undef)>>
  /\ UNCHANGED <<subscriptions, sent, received, ticks, pings, proc, sockets>>

\* A callback that does not look at the socket's state.
pingDue_always(state) == TRUE

\* Whether the interval callback calls socket.ping().
pingDue(state) == state = "OPEN"

\* The callback of startPing's setInterval.
PingTick ==
  /\ proc = "running"
  /\ pingTimer
  /\ Events < MaxEvents
  /\ ticks' = ticks + 1
  /\ IF pingDue(readyState)
     THEN /\ pings' = pings + 1
          /\ out' = <<Line("Ping sent to keep connection alive", Undef)>>
     ELSE /\ pings' = pings
          /\ out' = << >>
  /\ UNCHANGED <<readyState, subscriptions, sent, received, pingTimer, proc,
                 sockets>>

\* ws.on('error'): the socket fails while connecting or open; the handler logs.
WsError ==
  /\ proc = "running"
  /\ readyState \in {"CONNECTING", "OPEN"}
  /\ readyState' = "CLOSING"
  /\ out' = <<Line("WebSocket error:", Str("Error"))>>
  /\ UNCHANGED <<subscriptions, sent, received, pingTimer, ticks, pings, proc,
                 sockets>>

\* A 'close' handler that reconnects with a new socket.
socketsAfterClose_reconnect(n) == n + 1

\* The sockets the process has opened once the 'close' handler has run: the
\* handler only logs.
socketsAfterClose(n) == n

\* ws.on('close'): the connection has closed; the handler logs.
WsClose ==
  /\ proc = "running"
  /\ readyState \in {"OPEN", "CLOSING"}
  /\ readyState' = "CLOSED"
  /\ out' = <<Line("WebSocket connection closed", Undef)>>
  /\ subscriptions' = tableAfterClose(subscriptions)
  /\ sockets' = socketsAfterClose(sockets)
  /\ UNCHANGED <<sent, received, pingTimer, ticks, pings, proc>>

\* A handler that exits without closing the socket.
wsClose_skipped(state) == state

\* ws.close(): the state of a socket after close() was called on it.
wsClose(state) == IF state = "CLOSED" THEN "CLOSED" ELSE "CLOSING"

\* process.on('SIGINT'): logs, ws.close(), process.exit(0).
Sigint ==
  /\ proc = "running"
  /\ out' = <<Line("Closing WebSocket connection...", Undef)>>
  /\ readyState' = wsClose(readyState)
  /\ proc' = "exited"
  /\ UNCHANGED <<subscriptions, sent, received, pingTimer, ticks, pings, sockets>>

\* The ids the table holds.
RecordedIds == {subscriptions[key] : key \in DOMAIN subscriptions}

\* The calls of unsubscribe: an id the table holds, with one of the type
\* names or, as in the usage example, with the key it is stored under.
UnsubscribeCalls ==
  { <<subscriptions[key], type>> :
      key \in DOMAIN subscriptions, type \in UnsubscribeTypes }
  \cup { <<subscriptions[key], key>> : key \in DOMAIN subscriptions }

WsInit ==
  /\ readyState = "CONNECTING"
  /\ subscriptions = << >>
  /\ sent = << >>
  /\ received = << >>
  /\ out = << >>
  /\ pingTimer = FALSE
  /\ ticks = 0
  /\ pings = 0
  /\ proc = "running"
  /\ sockets = 1

(***************************************************************************)
(* The geyser script: a subscribe example, the stream's handlers and the   *)
(* keep-alive of setupPingInterval.                                        *)
(***************************************************************************)
\* The interval callbacks of one run.
MaxGeyserTicks == 3

GInit ==
  /\ gPc = "idle"
  /\ gWritable = "open"
  /\ gReadEnded = FALSE
  /\ gDestroyed = FALSE
  /\ gClosed = FALSE
  /\ gStreamClosed = "pending"
  /\ gInterval = FALSE
  /\ gTicks = 0
  /\ gPingWrites = 0
  /\ gPending = 0
  /\ gOut = << >>
  /\ gHandlers = FALSE
  /\ gRequests = 0
  /\ gCaught = Undef

\* Whether a write handed to the stream now can complete without error.
WriteCanSucceed == gWritable = "open" /\ ~gDestroyed

\* A promise that takes the outcome of every call.
Settle_last(promise, outcome) == outcome

\* resolve() or reject() of a promise: only a pending promise settles.
Settle(promise, outcome) == IF promise = "pending" THEN outcome ELSE promise

\* A subscribe example up to its request: client.subscribe(),
\* setupStreamHandlers(stream), stream.on("data", ...), and the
\* stream.write(request) of sendRequest.
GSubscribe ==
  /\ gPc = "idle"
  /\ gPc' = "writing"
  /\ gOut' = <<Line("Starting slot subscription example...", Undef)>>
  /\ gHandlers' = TRUE
  /\ gRequests' = gRequests + 1
  /\ UNCHANGED <<gWritable, gReadEnded, gDestroyed, gClosed, gStreamClosed,
                 gInterval, gTicks, gPingWrites, gPending, gCaught>>

\* The error a write that fails calls back with.
WriteError ==
  IF gDestroyed THEN Str("ERR_STREAM_DESTROYED")
  ELSE IF gWritable = "ended" THEN Str("ERR_STREAM_WRITE_AFTER_END")
  ELSE Str("UNAVAILABLE")

\* An example that goes on to the keep-alive whatever the write's outcome.
reachesPingSetup_always(ok) == TRUE

\* await sendRequest(stream, request): the example reaches
\* setupPingInterval(stream) only when the promise resolved.
reachesPingSetup(ok) == ok

\* The callback of sendRequest's stream.write: without an error the promise
\* resolves and the example goes on to setupPingInterval(stream); with one it
\* rejects, the catch logs and rethrows, and main's catch logs the error.
GRequestAck(ok) ==
  /\ gPc = "writing"
  /\ ok => WriteCanSucceed
  /\ IF ok
     THEN /\ gPc' = "streaming"
          /\ gCaught' = gCaught
          /\ gOut' = <<Line("Subscribe request sent successfully", Undef)>>
     ELSE /\ gPc' = "failed"
          /\ gCaught' = WriteError
          /\ gOut' = <<Line("Failed to send subscribe request:", WriteError),
                       Line("", WriteError),
                       Line("Error in main function:", WriteError)>>
  /\ gInterval' = IF reachesPingSetup(ok) THEN TRUE ELSE gInterval
  /\ UNCHANGED <<gWritable, gReadEnded, gDestroyed, gClosed, gStreamClosed,
                 gTicks, gPingWrites, gPending, gHandlers, gRequests>>

\* A callback that never finds the stream destroyed.
tickStops_never(destroyed) == FALSE

\* if (stream.destroyed): the callback clears the interval and returns.
tickStops(destroyed) == destroyed

\* The callback of setupPingInterval's setInterval, up to its await.
GPingTick ==
  /\ gInterval
  /\ gTicks < MaxGeyserTicks
  /\ gTicks' = gTicks + 1
  /\ IF tickStops(gDestroyed)
     THEN /\ gInterval' = FALSE
          /\ UNCHANGED <<gPingWrites, gPending>>
     ELSE /\ gPingWrites' = gPingWrites + 1
          /\ gPending' = gPending + 1
          /\ gInterval' = gInterval
  /\ gOut' = << >>
  /\ UNCHANGED <<gPc, gWritable, gReadEnded, gDestroyed, gClosed, gStreamClosed>>
  /\ UNCHANGED <<gHandlers, gRequests, gCaught>>

\* A catch that logs and leaves the interval running.
intervalAfterPingError_kept(interval) == interval

\* catch (error): clearInterval(interval).
intervalAfterPingError(interval) == FALSE

\* The callback of a ping's stream.write and the rest of the interval
\* callback: an error is logged and the interval cleared.
GPingAck(ok) ==
  /\ gPending > 0
  /\ ok => WriteCanSucceed
  /\ gPending' = gPending - 1
  /\ IF ok
     THEN /\ gInterval' = gInterval
          /\ gOut' = << >>
     ELSE /\ gInterval' = intervalAfterPingError(gInterval)
          /\ gOut' = <<Line("Failed to send ping:", Str("Error"))>>
  /\ UNCHANGED <<gPc, gWritable, gReadEnded, gDestroyed, gClosed, gStreamClosed,
                 gTicks, gPingWrites>>
  /\ UNCHANGED <<gHandlers, gRequests, gCaught>>

\* stream.on("error"): logs, rejects streamClosed and ends the stream.
GStreamError ==
  /\ gPc # "idle"
  /\ ~gClosed
  /\ gOut' = <<Line("Stream error:", Str("Error"))>>
  /\ gStreamClosed' = Settle(gStreamClosed, "rejected")
  /\ gWritable' = "ended"
  /\ UNCHANGED <<gPc, gReadEnded, gDestroyed, gClosed, gInterval, gTicks,
                 gPingWrites, gPending>>
  /\ UNCHANGED <<gHandlers, gRequests, gCaught>>

\* stream.on("end"): logs and resolves streamClosed.
GStreamEnd ==
  /\ gPc # "idle"
  /\ ~gReadEnded
  /\ ~gClosed
  /\ gReadEnded' = TRUE
  /\ gOut' = <<Line("Stream ended", Undef)>>
  /\ gStreamClosed' = Settle(gStreamClosed, "resolved")
  /\ UNCHANGED <<gPc, gWritable, gDestroyed, gClosed, gInterval, gTicks,
                 gPingWrites, gPending>>
  /\ UNCHANGED <<gHandlers, gRequests, gCaught>>

\* The stream is destroyed (by the transport, or once both sides have ended):
\* stream.destroyed reads true from now on.
GStreamDestroy ==
  /\ gPc # "idle"
  /\ ~gDestroyed
  /\ gDestroyed' = TRUE
  /\ gOut' = << >>
  /\ UNCHANGED <<gPc, gWritable, gReadEnded, gClosed, gStreamClosed, gInterval,
                 gTicks, gPingWrites, gPending>>
  /\ UNCHANGED <<gHandlers, gRequests, gCaught>>

\* stream.on("close"), emitted once after the stream was destroyed: logs and
\* resolves streamClosed.
GStreamClose ==
  /\ gDestroyed
  /\ ~gClosed
  /\ gClosed' = TRUE
  /\ gOut' = <<Line("Stream closed", Undef)>>
  /\ gStreamClosed' = Settle(gStreamClosed, "resolved")
  /\ UNCHANGED <<gPc, gWritable, gReadEnded, gDestroyed, gInterval, gTicks,
                 gPingWrites, gPending>>
  /\ UNCHANGED <<gHandlers, gRequests, gCaught>>

(***************************************************************************)
(* convertBuffers.                                                         *)
(***************************************************************************)
Arr(a) == [k |-> "array", a |-> a]
U8(b) == [k |-> "uint8array", b |-> b]

\* The object JSON gives for a Buffer: {type: 'Buffer', data: [...]}.
BufferObject(data) == Obj([type |-> Str("Buffer"), data |-> Arr(data)])

\* The nesting depth of the inputs.
MaxDepth == 2

B58Alphabet ==
  << "1", "2", "3", "4", "5", "6", "7", "8", "9", "A", "B", "C", "D", "E", "F",
     "G", "H", "J", "K", "L", "M", "N", "P", "Q", "R", "S", "T", "U", "V", "W",
     "X", "Y", "Z", "a", "b", "c", "d", "e", "f", "g", "h", "i", "j", "k", "m",
     "n", "o", "p", "q", "r", "s", "t", "u", "v", "w", "x", "y", "z" >>

RECURSIVE MulAdd(_, _)
\* The base58 digits, least significant first, of 256 times the number the
\* digits write, plus a carry.
MulAdd(digits, carry) ==
  IF digits = << >>
  THEN IF carry = 0 THEN << >> ELSE <<carry % 58>> \o MulAdd(<< >>, carry \div 58)
  ELSE <<(digits[1] * 256 + carry) % 58>>
         \o MulAdd(Tail(digits), (digits[1] * 256 + carry) \div 58)

RECURSIVE B58Digits(_)
\* The base58 digits, least significant first, of the number a byte sequence
\* writes, most significant byte first; none for 0.
B58Digits(bytes) ==
  IF bytes = << >> THEN << >>
  ELSE MulAdd(B58Digits(SubSeq(bytes, 1, Len(bytes) - 1)), bytes[Len(bytes)])

RECURSIVE B58Text(_)
\* The characters of the digits, most significant first.
B58Text(digits) ==
  IF digits = << >> THEN "" ELSE B58Text(Tail(digits)) \o B58Alphabet[digits[1] + 1]

RECURSIVE LeadingZeros(_)
LeadingZeros(bytes) ==
  IF bytes = << >> \/ bytes[1] # 0 THEN "" ELSE "1" \o LeadingZeros(Tail(bytes))

\* bs58.encode(bytes): a '1' for each leading zero byte, then the base58
\* digits of the number the bytes write.
bs58encode(bytes) == LeadingZeros(bytes) \o B58Text(B58Digits(bytes))

\* An element of new Uint8Array(data): the number modulo 256, and 0 for what
\* is no number.
ToByte(v) ==
  CASE v.k = "number" -> v.n % 256
    [] v.k = "boolean" -> (IF v.b THEN 1 ELSE 0)
    [] OTHER -> 0

\* new Uint8Array(obj.data)
ToUint8Array(data) == [i \in 1..Len(data) |-> ToByte(data[i])]

\* obj.type === 'Buffer' && Array.isArray(obj.data)
IsBufferObject(obj) ==
  /\ Get(obj, "type") = Str("Buffer")
  /\ Get(obj, "data").k = "array"

\* A conversion that knows one key only.
SkipKeys_onlyUiAmount == {"uiAmount"}

\* The keys whose values convertBuffers copies.
SkipKeys == {"uiAmount", "decimals", "uiAmountString"}

\* A conversion of the top level only: nothing nested is visited.
convertBuffers_top(obj) ==
  IF obj.k \in {"null", "undefined"} THEN obj
  ELSE IF IsBufferObject(obj) THEN Str(bs58encode(ToUint8Array(Get(obj, "data").a)))
  ELSE IF obj.k = "uint8array" THEN Str(bs58encode(obj.b))
  ELSE obj

RECURSIVE convertBuffers_dropsCopied(_)
\* A conversion that leaves the keys it does not convert out of the result.
convertBuffers_dropsCopied(obj) ==
  IF obj.k \in {"null", "undefined"} THEN obj
  ELSE IF IsBufferObject(obj)
  THEN Str(bs58encode(ToUint8Array(Get(obj, "data").a)))
  ELSE IF obj.k = "array"
  THEN Arr([i \in 1..Len(obj.a) |-> convertBuffers_dropsCopied(obj.a[i])])
  ELSE IF obj.k = "uint8array"
  THEN Str(bs58encode(obj.b))
  ELSE IF obj.k = "object"
  THEN Obj([key \in DOMAIN obj.f \ SkipKeys |-> convertBuffers_dropsCopied(obj.f[key])])
  ELSE obj

RECURSIVE convertBuffers_jsonBytes(_)
\* A conversion that leaves a Uint8Array as the object JSON gives for it.
convertBuffers_jsonBytes(obj) ==
  IF obj.k \in {"null", "undefined"} THEN obj
  ELSE IF IsBufferObject(obj)
  THEN Str(bs58encode(ToUint8Array(Get(obj, "data").a)))
  ELSE IF obj.k = "array"
  THEN Arr([i \in 1..Len(obj.a) |-> convertBuffers_jsonBytes(obj.a[i])])
  ELSE IF obj.k = "uint8array"
  THEN BufferObject([i \in 1..Len(obj.b) |-> Num(obj.b[i])])
  ELSE IF obj.k = "object"
  THEN Obj([key \in DOMAIN obj.f |->
              IF key \in SkipKeys THEN obj.f[key] ELSE convertBuffers_jsonBytes(obj.f[key])])
  ELSE obj

RECURSIVE convertBuffers(_)
convertBuffers(obj) ==
  IF obj.k \in {"null", "undefined"} THEN obj
  ELSE IF IsBufferObject(obj)
  THEN Str(bs58encode(ToUint8Array(Get(obj, "data").a)))
  ELSE IF obj.k = "array"
  THEN Arr([i \in 1..Len(obj.a) |-> convertBuffers(obj.a[i])])
  ELSE IF obj.k = "uint8array"
  THEN Str(bs58encode(obj.b))
  ELSE IF obj.k = "object"
  THEN Obj([key \in DOMAIN obj.f |->
              IF key \in SkipKeys THEN obj.f[key] ELSE convertBuffers(obj.f[key])])
  ELSE obj

\* The inputs: scalars and binary-shaped values, and arrays and objects of
\* them to the depth MaxDepth.
Scalars == {Undef, Null, Num(6), Str("x"), Bool(FALSE)}

Binaries ==
  { BufferObject(<<Num(0), Num(1)>>), BufferObject(<<Num(300)>>),
    BufferObject(<< >>), U8(<<255, 1>>) }

Leaves == Scalars \cup Binaries

\* The bytes whose base58 string is "Buffer".
BufferBytes == U8(<<1, 170, 190, 93, 91>>)

RECURSIVE ValuesTo(_)
ValuesTo(depth) ==
  IF depth = 0 THEN Leaves
  ELSE
    LET S == ValuesTo(depth - 1) IN
    S \cup {Arr(<<v>>) : v \in S}
      \cup {Arr(<<v, w>>) : v \in Leaves, w \in Binaries}
      \cup {Obj([a |-> v]) : v \in S}
      \cup {Obj([uiAmount |-> v]) : v \in S}
      \cup {Obj([a |-> v, decimals |-> w]) : v \in Binaries, w \in Leaves}
      \cup {Obj([type |-> Str("Buffer"), data |-> Str("x")])}
      \cup {Obj([type |-> BufferBytes, data |-> Arr(<<Num(1)>>)])}

ConvertInputs == ValuesTo(MaxDepth)

\* A call convertBuffers(cInput).
ConvertCall ==
  /\ cPc = "call"
  /\ cResult' = convertBuffers(cInput)
  /\ cPc' = "done"
  /\ UNCHANGED cInput

(***************************************************************************)
(* The HTTP query helpers.                                                 *)
(***************************************************************************)
\* The helper calls of one run.
MaxCalls == 2

Endpoint == "https://mainnet.helius-rpc.com/?api-key=YOUR_API_KEY"

\* The arguments the helpers are called with.
BalancePubkey == "83astBRguLMdt2h5U1Tpdq5tjFoJ6noeGwaY3mDLVcri"
OwnerAddress == "owner1"
TokenProgramId == "TokenkegQfeZyiNwAJbNbGKPFXCWuBvf9Ss623VQ5DA"

\* An error thrown or a promise's rejection reason.
Err(name) == [k |-> "error", e |-> name]

\* The argument of fetch: the url and the init object; json is the object
\* given to JSON.stringify for the body.
Post(method, params) ==
  [ url |-> Endpoint,
    method |-> "POST",
    headers |-> [ContentType |-> "application/json"],
    json |-> Obj([jsonrpc |-> Str("2.0"), id |-> Str("1"),
                  method |-> Str(method), params |-> Arr(params)]) ]

\* The bodies the server answers with.
BodyResult == "{\"jsonrpc\":\"2.0\",\"result\":{\"value\":1},\"id\":\"1\"}"
BodyError == "{\"jsonrpc\":\"2.0\",\"error\":{\"code\":-32401},\"id\":\"1\"}"
BodyNull == "null"
BodyHtml == "<html>Bad Gateway</html>"

\* A response: fetch resolves with it whatever its status.
Response(status, body) == [k |-> "response", status |-> status, body |-> body]

\* fetch rejected: the request did not complete.
NetworkFailure == [k |-> "failure", e |-> "TypeError: fetch failed"]

FetchOutcomes ==
  { Response(200, BodyResult), Response(200, BodyNull),
    Response(401, BodyError), Response(502, BodyHtml), NetworkFailure }

\* Whether response.json() can decode the body.
BodyDecodes(body) == body \in {BodyResult, BodyError, BodyNull}

\* The value response.json() resolves with.
BodyJson(body) ==
  CASE body = BodyResult ->
         Obj([jsonrpc |-> Str("2.0"),
              result |-> Obj([value |-> Num(1)]),
              id |-> Str("1")])
    [] body = BodyError ->
         Obj([jsonrpc |-> Str("2.0"),
              error |-> Obj([code |-> Num(-32401)]),
              id |-> Str("1")])
    [] OTHER -> Null

\* A helper entered: it builds its request and calls fetch once.
HCall(request) ==
  /\ hPc \in {"idle", "returned", "rejected"}
  /\ hCalls < MaxCalls
  /\ hCalls' = hCalls + 1
  /\ hPosted' = Append(hPosted, request)
  /\ hPc' = "fetching"
  /\ hReply' = Undef
  /\ hResult' = Undef

getBalance == HCall(Post("getBalance", <<Str(BalancePubkey)>>))

getTransaction(signature) ==
  HCall(Post("getTransaction",
             <<Str(signature),
               Obj([encoding |-> Str("json"),
                    maxSupportedTransactionVersion |-> Num(0)])>>))

getMultipleAccounts(pubkeys) ==
  HCall(Post("getMultipleAccounts",
             <<Arr(pubkeys),
               Obj([encoding |-> Str("jsonParsed"),
                    commitment |-> Str("confirmed")])>>))

getTokenAccountsByOwner(ownerAddress) ==
  HCall(Post("getTokenAccountsByOwner",
             <<Str(ownerAddress),
               Obj([programId |-> Str(TokenProgramId)]),
               Obj([encoding |-> Str("jsonParsed")])>>))

getProgramAccounts(programId) ==
  HCall(Post("getProgramAccounts",
             <<Str(programId),
               Obj([encoding |-> Str("jsonParsed"),
                    filters |-> Arr(<<Obj([dataSize |-> Num(165)])>>)])>>))

\* await fetch(...): the promise settles. A rejection leaves the helper as it
\* is thrown; there is no catch.
HFetchSettles(outcome) ==
  /\ hPc = "fetching"
  /\ hReply' = outcome
  /\ IF outcome.k = "response"
     THEN /\ hPc' = "decoding"
          /\ hResult' = hResult
     ELSE /\ hPc' = "rejected"
          /\ hResult' = Err(outcome.e)
  /\ UNCHANGED <<hCalls, hPosted>>

\* A helper that hands back only the result member.
helperResult_unwrapped(decoded) == Get(decoded, "result")

\* return await response.json(): the value the helper returns.
helperResult(decoded) == decoded

\* await response.json(): the body decodes and the helper returns, or the
\* decoding fails and the helper rejects with that error.
HJsonSettles ==
  /\ hPc = "decoding"
  /\ IF BodyDecodes(hReply.body)
     THEN /\ hPc' = "returned"
          /\ hResult' = helperResult(BodyJson(hReply.body))
     ELSE /\ hPc' = "rejected"
          /\ hResult' = Err("SyntaxError")
  /\ UNCHANGED <<hCalls, hPosted, hReply>>

HInit ==
  /\ hPc = "idle"
  /\ hCalls = 0
  /\ hPosted = << >>
  /\ hReply = Undef
  /\ hResult = Undef

(***************************************************************************)
(* The lookup-table examples of the toolbox.                               *)
(***************************************************************************)
\* The slots that elapse in one run, and the examples run.
MaxSlot == 2
MaxLutRuns == 3

\* umi.identity.publicKey
Identity == "identity"

\* findAddressLookupTablePda(umi, {authority, recentSlot}): the address is
\* derived from the two seeds; different seeds give different addresses.
findAddressLookupTablePda(authority, recentSlot) ==
  [authority |-> authority, recentSlot |-> recentSlot]

\* umi.rpc.getSlot({commitment: 'finalized'})
getSlot == lSlot

\* The cluster finalizes another slot.
SlotAdvances ==
  /\ lSlot < MaxSlot
  /\ lSlot' = lSlot + 1
  /\ UNCHANGED <<lTables, lRuns, lTxPc, lTxBuilders, lTxSent>>

\* An example that creates a table: the program stores it at the address
\* derived from the authority and the recent slot it was given.
CreateTable(fn) ==
  /\ lTxPc # "creating"
  /\ Len(lRuns) < MaxLutRuns
  /\ LET recentSlot == getSlot
         address == findAddressLookupTablePda(Identity, recentSlot)
     IN /\ lTables' = lTables \cup {address}
        /\ lRuns' = Append(lRuns, [fn |-> fn, address |-> address, found |-> TRUE])
  /\ UNCHANGED <<lSlot, lTxPc, lTxBuilders, lTxSent>>

createLookupTableExample == CreateTable("createLookupTableExample")

createAndExtendLutExample == CreateTable("createAndExtendLutExample")

\* An example that works on a table: it reads the slot again, derives the
\* address from it and sends the instruction for that address.
UseTable(fn) ==
  /\ lTxPc # "creating"
  /\ Len(lRuns) < MaxLutRuns
  /\ LET recentSlot == getSlot
         lutAddress == findAddressLookupTablePda(Identity, recentSlot)
     IN lRuns' = Append(lRuns, [fn |-> fn, address |-> lutAddress,
                                found |-> lutAddress \in lTables])
  /\ UNCHANGED <<lSlot, lTables, lTxPc, lTxBuilders, lTxSent>>

extendLookupTableExample == UseTable("extendLookupTableExample")

freezeLookupTableExample == UseTable("freezeLookupTableExample")

deactivateLookupTableExample == UseTable("deactivateLookupTableExample")

closeLookupTableExample == UseTable("closeLookupTableExample")

\* The number of lookup tables createLutForTransactionBuilder asks for.
MaxLutBuilders == 2

\* A transaction of createLutForTransactionExample: the creation of the
\* table at a position of createLutBuilders, or the base transaction.
CreateLutTx(index) == [kind |-> "create", index |-> index, status |-> "pending"]
BaseTx == [kind |-> "base", index |-> 0, status |-> "pending"]

\* The transaction in flight has settled.
Settled(txs, status) == [txs EXCEPT ![Len(txs)].status = status]

\* A loop that goes on after a failed transaction.
afterSendAndConfirm_goesOn(ok, pc) == pc

\* await sendAndConfirm(umi): a failure is thrown out of the example.
afterSendAndConfirm(ok, pc) == IF ok THEN pc ELSE "failed"

\* createLutForTransactionExample up to the loop: it reads the slot and
\* gets the builders of the tables the base transaction needs.
createLutForTransactionExample ==
  /\ lTxPc = "idle"
  /\ \E n \in 0..MaxLutBuilders : lTxBuilders' = n
  /\ lTxPc' = "creating"
  /\ lTxSent' = << >>
  /\ UNCHANGED <<lSlot, lTables, lRuns>>

InFlight == lTxSent # << >> /\ lTxSent[Len(lTxSent)].status = "pending"

\* for (const createLutBuilder of createLutBuilders): the next builder's
\* transaction is sent.
SendCreateLut ==
  /\ lTxPc = "creating"
  /\ ~InFlight
  /\ Len(lTxSent) < lTxBuilders
  /\ lTxSent' = Append(lTxSent, CreateLutTx(Len(lTxSent) + 1))
  /\ UNCHANGED <<lSlot, lTables, lRuns, lTxPc, lTxBuilders>>

\* The creation sent is confirmed, or fails.
CreateLutSettles(ok) ==
  /\ lTxPc = "creating"
  /\ InFlight
  /\ lTxSent[Len(lTxSent)].kind = "create"
  /\ lTxSent' = Settled(lTxSent, IF ok THEN "confirmed" ELSE "failed")
  /\ lTxPc' = afterSendAndConfirm(ok, lTxPc)
  /\ UNCHANGED <<lSlot, lTables, lRuns, lTxBuilders>>

\* baseBuilder.setAddressLookupTables(lutAccounts).sendAndConfirm(umi),
\* after the loop.
SendBase ==
  /\ lTxPc = "creating"
  /\ ~InFlight
  /\ Len(lTxSent) >= lTxBuilders
  /\ lTxSent' = Append(lTxSent, BaseTx)
  /\ UNCHANGED <<lSlot, lTables, lRuns, lTxPc, lTxBuilders>>

\* The base transaction is confirmed, or fails; the example returns or
\* throws.
BaseSettles(ok) ==
  /\ lTxPc = "creating"
  /\ InFlight
  /\ lTxSent[Len(lTxSent)].kind = "base"
  /\ lTxSent' = Settled(lTxSent, IF ok THEN "confirmed" ELSE "failed")
  /\ lTxPc' = IF ok THEN "done" ELSE "failed"
  /\ UNCHANGED <<lSlot, lTables, lRuns, lTxBuilders>>

LInit ==
  /\ lSlot = 0
  /\ lTables = {}
  /\ lRuns = << >>
  /\ lTxPc = "idle"
  /\ lTxBuilders = 0
  /\ lTxSent = << >>

(***************************************************************************)
(* The configuration the streaming scripts read when they start.           *)
(***************************************************************************)
EnvNames == {"HELIUS_API_KEY", "HELIUS_GEYSER_URL", "HELIUS_X_TOKEN"}

\* A variable of process.env: not set, set but empty, or set to a value.
EnvValues == {Undef, Str(""), Str("k1")}

\* A variable of the .env file: absent or given.
FileValues == {Undef, Str("f1")}

\* A read that falls back only when the variable is not set.
envOr_unsetOnly(value, fallback) ==
  IF value.k = "undefined" THEN Str(fallback) ELSE value

\* process.env.X || fallback
envOr(value, fallback) == IF Truthy(value) THEN value ELSE Str(fallback)

\* dotenv.config(): a variable of the file is copied to process.env unless
\* process.env has the variable already.
dotenvConfig(env, file) ==
  [name \in EnvNames |-> IF env[name] = Undef THEN file[name] ELSE env[name]]

NoConst ==
  [HELIUS_API_KEY |-> Undef, HELIUS_WSS_URL |-> Undef,
   GRPC_URL |-> Undef, X_TOKEN |-> Undef]

\* The WebSocket script starts: HELIUS_API_KEY and HELIUS_WSS_URL.
WsStart ==
  /\ ePc = "none"
  /\ ePc' = "ws"
  /\ eRead' = eEnv
  /\ LET HELIUS_API_KEY == envOr(eEnv["HELIUS_API_KEY"], "your-api-key-here")
     IN eConst' =
          [eConst EXCEPT
             !.HELIUS_API_KEY = HELIUS_API_KEY,
             !.HELIUS_WSS_URL =
                Str("wss://mainnet.helius-rpc.com/?api-key=" \o HELIUS_API_KEY.s)]
  /\ UNCHANGED <<eEnv, eFile>>

\* The geyser script starts: dotenv.config(), then GRPC_URL and X_TOKEN.
GeyserStart ==
  /\ ePc = "none"
  /\ ePc' = "geyser"
  /\ LET env == dotenvConfig(eEnv, eFile)
     IN /\ eEnv' = env
        /\ eRead' = env
        /\ eConst' =
             [eConst EXCEPT
                !.GRPC_URL = envOr(env["HELIUS_GEYSER_URL"], "your-geyser-url-here"),
                !.X_TOKEN = envOr(env["HELIUS_X_TOKEN"], "your-x-token-here")]
  /\ UNCHANGED eFile

\* A variable of process.env is assigned or deleted after the start. The
\* constants are not defined again.
EnvChanges(name, value) ==
  /\ ePc # "none"
  /\ eEnv[name] # value
  /\ eEnv' = [eEnv EXCEPT ![name] = value]
  /\ UNCHANGED <<ePc, eFile, eRead, eConst>>

\* No script started, nothing set.
EInit ==
  /\ ePc = "none"
  /\ eEnv = [name \in EnvNames |-> Undef]
  /\ eFile = [name \in EnvNames |-> Undef]
  /\ eRead = [name \in EnvNames |-> Undef]
  /\ eConst = NoConst

(***************************************************************************)
(* The token walkthrough.                                                  *)
(***************************************************************************)
\* A guide that mints before it creates the token account.
Walkthrough_mintBeforeAccount ==
  << "install", "mkdir", "cd", "grind-bos", "config-set-keypair",
     "config-set-url", "config-get", "address", "grind-mnt", "ls",
     "create-token", "initialize-metadata", "mint", "create-account" >>

\* The commands of the guide, in the order of the file.
Walkthrough ==
  << "install", "mkdir", "cd", "grind-bos", "config-set-keypair",
     "config-set-url", "config-get", "address", "grind-mnt", "ls",
     "create-token", "initialize-metadata", "create-account", "mint" >>

\* The command typed next is this one.
AtCommand(name) == tPc <= Len(Walkthrough) /\ Walkthrough[tPc] = name

\* The RPC URL of a cluster name, as `solana config set --url` resolves it.
RpcUrl(moniker) ==
  CASE moniker = "devnet" -> "https://api.devnet.solana.com"
    [] moniker = "testnet" -> "https://api.testnet.solana.com"
    [] OTHER -> "https://api.mainnet-beta.solana.com"

\* The addresses `solana-keygen grind` can come up with.
WalletKeys == {"bosHKmF6", "bosQ2w9x", "bos8dPnL"}
MintKeys == {"mntHQqoh", "mntT7e1b", "mntV5k3c"}

\* The configuration the CLI has before the guide is followed.
InitialConfigs ==
  { [keypair |-> path, url |-> RpcUrl(moniker)] :
      path \in {"id.json", "other.json"},
      moniker \in {"mainnet-beta", "devnet", "testnet"} }

TokenExtensionsProgram == "TokenzQdBNbLqP5VEhdkAS6EPFLC1PHnBqCXEpPxuEb"

\* Decimals: 9, the default of create-token; the amount of the mint command.
Decimals == 9
MintAmount == 100

KeypairFile(address) == address \o ".json"

\* The address of the keypair a file holds.
AddressOf(path) ==
  IF \E a \in WalletKeys \cup MintKeys : KeypairFile(a) = path
  THEN CHOOSE a \in WalletKeys \cup MintKeys : KeypairFile(a) = path
  ELSE path

\* The wallet the CLI signs and pays with.
Signer == AddressOf(tConfig.keypair)

\* The associated token account of an owner for a mint.
TokenAccountAddress(owner, mint) == [owner |-> owner, mint |-> mint]

\* A command that changes nothing the guide depends on: the install, mkdir,
\* cd, solana config get, solana address and ls.
Plain(name) ==
  /\ AtCommand(name)
  /\ tPc' = tPc + 1
  /\ UNCHANGED <<tConfig, tFiles, tWallet, tMintKey, tMint, tAccount, tTxs>>

\* solana-keygen grind --starts-with bos:1
GrindBos(address) ==
  /\ AtCommand("grind-bos")
  /\ tPc' = tPc + 1
  /\ tWallet' = address
  /\ tFiles' = tFiles \cup {KeypairFile(address)}
  /\ UNCHANGED <<tConfig, tMintKey, tMint, tAccount, tTxs>>

\* solana config set --keypair <the bos keypair file>
ConfigSetKeypair ==
  /\ AtCommand("config-set-keypair")
  /\ tPc' = tPc + 1
  /\ tConfig' = [tConfig EXCEPT !.keypair = KeypairFile(tWallet)]
  /\ UNCHANGED <<tFiles, tWallet, tMintKey, tMint, tAccount, tTxs>>

\* solana config set --url devnet
ConfigSetUrl ==
  /\ AtCommand("config-set-url")
  /\ tPc' = tPc + 1
  /\ tConfig' = [tConfig EXCEPT !.url = RpcUrl("devnet")]
  /\ UNCHANGED <<tFiles, tWallet, tMintKey, tMint, tAccount, tTxs>>

\* solana-keygen grind --starts-with mnt:1
GrindMnt(address) ==
  /\ AtCommand("grind-mnt")
  /\ tPc' = tPc + 1
  /\ tMintKey' = address
  /\ tFiles' = tFiles \cup {KeypairFile(address)}
  /\ UNCHANGED <<tConfig, tWallet, tMint, tAccount, tTxs>>

\* A transaction of a command, sent to the cluster the CLI is configured for.
Tx(command, ok) == [command |-> command, url |-> tConfig.url, ok |-> ok]

\* spl-token create-token --program-id <Token Extensions> --enable-metadata
\* <the mnt keypair file>: the mint is created at the keypair's address, with
\* the signer as mint authority.
CreateToken ==
  /\ AtCommand("create-token")
  /\ tPc' = tPc + 1
  /\ LET ok == KeypairFile(tMintKey) \in tFiles /\ tMint = Null
     IN /\ tTxs' = Append(tTxs, Tx("create-token", ok))
        /\ tMint' =
             IF ok
             THEN [k |-> "mint", url |-> tConfig.url, address |-> tMintKey,
                   program |-> TokenExtensionsProgram, authority |-> Signer,
                   decimals |-> Decimals, metadata |-> Null, supply |-> 0]
             ELSE tMint
  /\ UNCHANGED <<tConfig, tFiles, tWallet, tMintKey, tAccount>>

\* Whether the mint of the guide exists on the cluster the CLI talks to.
MintThere == tMint # Null /\ tMint.url = tConfig.url /\ tMint.address = tMintKey

\* spl-token initialize-metadata <mint> <name> <symbol> <uri>, signed by the
\* mint authority.
InitializeMetadata ==
  /\ AtCommand("initialize-metadata")
  /\ tPc' = tPc + 1
  /\ LET ok == MintThere /\ tMint.authority = Signer /\ tMint.metadata = Null
     IN /\ tTxs' = Append(tTxs, Tx("initialize-metadata", ok))
        /\ tMint' =
             IF ok
             THEN [tMint EXCEPT
                     !.metadata = Obj([name |-> Str("Pejman example token"),
                                       symbol |-> Str("EXMPL")])]
             ELSE tMint
  /\ UNCHANGED <<tConfig, tFiles, tWallet, tMintKey, tAccount>>

\* spl-token create-account <mint>: the signer's token account for the mint.
CreateAccount ==
  /\ AtCommand("create-account")
  /\ tPc' = tPc + 1
  /\ LET ok == MintThere /\ tAccount = Null
     IN /\ tTxs' = Append(tTxs, Tx("create-account", ok))
        /\ tAccount' =
             IF ok
             THEN [k |-> "account", url |-> tConfig.url,
                   address |-> TokenAccountAddress(Signer, tMintKey),
                   owner |-> Signer, mint |-> tMintKey, amount |-> 0]
             ELSE tAccount
  /\ UNCHANGED <<tConfig, tFiles, tWallet, tMintKey, tMint>>

\* spl-token mint <mint> 100: the mint authority mints to its own token
\* account for the mint.
MintTokens ==
  /\ AtCommand("mint")
  /\ tPc' = tPc + 1
  /\ LET ok == /\ MintThere
               /\ tMint.authority = Signer
               /\ tAccount # Null
               /\ tAccount.url = tConfig.url
               /\ tAccount.address = TokenAccountAddress(Signer, tMintKey)
     IN /\ tTxs' = Append(tTxs, Tx("mint", ok))
        /\ tMint' = IF ok THEN [tMint EXCEPT !.supply = @ + MintAmount] ELSE tMint
        /\ tAccount' =
             IF ok THEN [tAccount EXCEPT !.amount = @ + MintAmount] ELSE tAccount
  /\ UNCHANGED <<tConfig, tFiles, tWallet, tMintKey>>

\* Nobody follows the guide.
TInit ==
  /\ tPc = 1
  /\ tConfig = [keypair |-> "id.json", url |-> RpcUrl("mainnet-beta")]
  /\ tFiles = {}
  /\ tWallet = ""
  /\ tMintKey = ""
  /\ tMint = Null
  /\ tAccount = Null
  /\ tTxs = << >>

(***************************************************************************)
(* helius-geyser.ts: the handlers of the stream's 'data' event.  A handler *)
(* reads the record and logs; the timestamp that starts a line is left out *)
(* of the text.                                                            *)
(***************************************************************************)
GeyserExamples ==
  {"subscribeToSlots", "subscribeToAccounts", "subscribeToProgramAccounts",
   "subscribeToTransactions", "subscribeToBlocks"}

\* v?.name
OptGet(v, name) == IF HasProps(v) THEN Get(v, name) ELSE Undef

\* v[0]
First(v) == IF v.k = "array" /\ Len(v.a) > 0 THEN v.a[1] ELSE Undef

\* v.length
LengthOf(v) ==
  CASE v.k = "array" -> Num(Len(v.a))
    [] v.k = "uint8array" -> Num(Len(v.b))
    [] v.k = "string" -> Num(Len(v.s))
    [] OTHER -> Undef

\* a || b
OrElse(a, b) == IF Truthy(a) THEN a ELSE b

\* Whether bs58.encode(v) returns: it throws a TypeError for what is neither
\* a Uint8Array nor an array.
Encodes(v) == v.k \in {"uint8array", "array"}

bs58encodeValue(v) ==
  IF v.k = "uint8array" THEN bs58encode(v.b) ELSE bs58encode(ToUint8Array(v.a))

\* CommitmentLevel[status]: the name of the enum's member, undefined for
\* what is no member.
CommitmentLevelName(status) ==
  IF status.k = "number" /\ status.n \in 0..2
  THEN Str(<<"PROCESSED", "CONFIRMED", "FINALIZED">>[status.n + 1])
  ELSE Undef

\* console.log of a template literal.
Log(text) == Line(text, Undef)

PongLine == Log(": Processed ping response!")

\* What a handler did: the lines it logged, and whether it threw.
Handled(lines) == [out |-> lines, threw |-> FALSE]
Threw(lines) == [out |-> lines, threw |-> TRUE]

\* A dispatch that looks for the pong first.
branchOf_pongFirst(update, pong) ==
  IF pong THEN "pong" ELSE IF update THEN "update" ELSE "none"

\* if (<update>) {...} else if (data.pong) {...}
branchOf(update, pong) ==
  IF update THEN "update" ELSE IF pong THEN "pong" ELSE "none"

\* The branches after the update: the ping response, or nothing.
otherwise(branch, update) ==
  CASE branch = "update" -> update
    [] branch = "pong" -> Handled(<<PongLine>>)
    [] OTHER -> Handled(<< >>)

\* data.filters && data.filters[0] === name && data[payload]
filterTest(data, name, payload) ==
  /\ Truthy(Get(data, "filters"))
  /\ First(Get(data, "filters")) = Str(name)
  /\ Truthy(Get(data, payload))

slotHandler(data) ==
  LET slot == Get(data, "slot")
  IN otherwise(branchOf(filterTest(data, "slot", "slot"), Truthy(Get(data, "pong"))),
       Handled(<<Log(": Received slot update: " \o TemplateStr(Get(slot, "slot"))),
                 Log("  Parent: " \o TemplateStr(Get(slot, "parent")) \o ", Status: "
                     \o TemplateStr(CommitmentLevelName(Get(slot, "status"))))>>))

\* The handlers of subscribeToAccounts and subscribeToProgramAccounts, which
\* differ in the first line.
accountHandler(data, header) ==
  LET account == Get(data, "account")
      pubkey == Get(account, "pubkey")
      owner == Get(account, "owner")
  IN otherwise(branchOf(filterTest(data, "account", "account"), Truthy(Get(data, "pong"))),
       IF ~Encodes(pubkey) THEN Threw(<<Log(header)>>)
       ELSE IF ~Encodes(owner)
       THEN Threw(<<Log(header), Log("  Account: " \o bs58encodeValue(pubkey))>>)
       ELSE Handled(<<Log(header),
                      Log("  Account: " \o bs58encodeValue(pubkey)),
                      Log("  Owner: " \o bs58encodeValue(owner)),
                      Log("  Lamports: " \o TemplateStr(Get(account, "lamports"))),
                      Log("  Data Length: "
                          \o TemplateStr(OrElse(LengthOf(OptGet(account, "data")), Num(0)))
                          \o " bytes")>>))

\* accountKeys.forEach((key, index) => console.log(`    [${index}] ${key}`))
keyLines(accountKeys) ==
  [i \in 1..Len(accountKeys.a) |->
     Log("    [" \o NumToStr(i - 1) \o "] " \o TemplateStr(accountKeys.a[i]))]

transactionHandler(data) ==
  LET convertedTx == convertBuffers(Get(data, "transaction"))
      meta == Get(convertedTx, "meta")
      accountKeys == OptGet(OptGet(Get(convertedTx, "transaction"), "message"), "accountKeys")
      details == <<Log(": Received transaction update:"),
                   Log("  Signature: " \o TemplateStr(Get(convertedTx, "signature"))),
                   Log("  Slot: " \o TemplateStr(Get(convertedTx, "slot"))),
                   Log("  Success: " \o TemplateStr(Bool(~Truthy(OptGet(meta, "err")))))>>
      keys == IF Truthy(accountKeys)
              THEN <<Log("  Account Keys:")>> \o keyLines(accountKeys)
              ELSE << >>
      inner == IF Truthy(OptGet(meta, "innerInstructions"))
               THEN <<Log("  Inner Instructions Count: "
                          \o TemplateStr(LengthOf(Get(meta, "innerInstructions"))))>>
               ELSE << >>
  IN otherwise(branchOf(Truthy(Get(data, "transaction")), Truthy(Get(data, "pong"))),
       IF Truthy(accountKeys) /\ accountKeys.k # "array"
       THEN Threw(details \o <<Log("  Account Keys:")>>)
       ELSE Handled(details \o keys \o inner))

blockHandler(data) ==
  LET block == Get(data, "block")
      lines == <<Log(": Received block update:"),
                 Log("  Slot: " \o TemplateStr(Get(block, "slot"))),
                 Log("  Parent Slot: " \o TemplateStr(Get(block, "parentSlot")))>>
  IN otherwise(branchOf(Truthy(Get(data, "block")), Truthy(Get(data, "pong"))),
       IF ~Encodes(Get(block, "blockhash")) THEN Threw(lines)
       ELSE Handled(lines \o
              <<Log("  Blockhash: " \o bs58encodeValue(Get(block, "blockhash"))),
                Log("  Transaction Count: "
                    \o TemplateStr(OrElse(LengthOf(OptGet(block, "transactions")), Num(0))))>>))

\* stream.on("data", ...) of each example.
dataHandler(example, data) ==
  CASE example = "subscribeToSlots" -> slotHandler(data)
    [] example = "subscribeToAccounts" ->
         accountHandler(data, ": Received account update:")
    [] example = "subscribeToProgramAccounts" ->
         accountHandler(data, ": Received program account update:")
    [] example = "subscribeToTransactions" -> transactionHandler(data)
    [] OTHER -> blockHandler(data)

\* The records of the stream: the names of the filters that matched, a
\* payload and a pong, each of which a record may lack.
FiltersParts ==
  {<< >>, [filters |-> Arr(<< >>)], [filters |-> Arr(<<Str("slot")>>)],
   [filters |-> Arr(<<Str("account")>>)], [filters |-> Arr(<<Str("client")>>)]}

PayloadParts ==
  {<< >>,
   [slot |-> Obj([slot |-> Num(5), parent |-> Num(4), status |-> Num(1)])],
   [account |-> Obj([pubkey |-> U8(<<1>>), owner |-> U8(<<0, 1>>), lamports |-> Num(7),
                     data |-> U8(<<1, 2>>)])],
   [account |-> Obj([account |-> Obj([pubkey |-> U8(<<1>>)]), slot |-> Num(5)])],
   [transaction |-> Obj([signature |-> U8(<<1>>), slot |-> Num(5),
                         transaction |-> Obj([message |-> Obj([accountKeys |-> Arr(<<U8(<<1>>), U8(<<2>>)>>)])]),
                         meta |-> Obj([err |-> Null, innerInstructions |-> Arr(<< >>)])])],
   [transaction |-> Obj([transaction |-> Obj([message |-> Obj([accountKeys |-> U8(<<1>>)])])])],
   [block |-> Obj([slot |-> Num(5), parentSlot |-> Num(4), blockhash |-> U8(<<1>>),
                   transactions |-> Arr(<<Obj([index |-> Num(0)])>>)])],
   [block |-> Obj([slot |-> Num(5), parentSlot |-> Num(4), blockhash |-> Str("2")])],
   [ping |-> Obj(<< >>)]}

PongParts == {<< >>, [pong |-> Obj([id |-> Num(1)])]}

Records ==
  {Obj(filters @@ payload @@ pong) :
     filters \in FiltersParts, payload \in PayloadParts, pong \in PongParts}

DInit ==
  /\ dExample = "subscribeToSlots"
  /\ dData = Obj(<< >>)
  /\ dPc = "received"
  /\ dOut = << >>

\* The stream emits 'data' and the example's handler runs.
DataCall ==
  /\ dPc = "received"
  /\ dPc' = IF dataHandler(dExample, dData).threw THEN "threw" ELSE "handled"
  /\ dOut' = dataHandler(dExample, dData).out
  /\ UNCHANGED <<dExample, dData>>

(***************************************************************************)
(* The specifications: one for each script, and one for a call of          *)
(* convertBuffers. What a specification does not run stays as it starts.   *)
(***************************************************************************)
CIdle ==
  /\ cInput = Undef
  /\ cResult = Undef
  /\ cPc = "idle"

Init == WsInit /\ GInit /\ CIdle /\ HInit /\ LInit /\ EInit /\ TInit /\ DInit

\* The steps of the WebSocket script leave the rest alone.
WsOnly == UNCHANGED <<gVars, cVars, hVars, lVars, eVars, tVars, dVars>>

Next ==
  \/ WsOpen /\ WsOnly
  \/ subscribeToAccount(AccountPubkey) /\ WsOnly
  \/ subscribeToProgram(ProgramId) /\ WsOnly
  \/ subscribeToLogs(LogsMention) /\ WsOnly
  \/ subscribeToSignature(Signature) /\ WsOnly
  \/ subscribeToSlot /\ WsOnly
  \/ subscribeToRoot /\ WsOnly
  \/ \E call \in UnsubscribeCalls : unsubscribe(call[1], call[2]) /\ WsOnly
  \/ \E data \in Frames : WsMessage(data) /\ WsOnly
  \/ PingTick /\ WsOnly
  \/ WsError /\ WsOnly
  \/ WsClose /\ WsOnly
  \/ Sigint /\ WsOnly

Spec == Init /\ [][Next]_vars

\* The steps of the geyser script leave the rest alone.
GeyserOnly == UNCHANGED <<wsVars, cVars, hVars, lVars, eVars, tVars, dVars>>

GeyserNext ==
  \/ GSubscribe /\ GeyserOnly
  \/ \E ok \in BOOLEAN : GRequestAck(ok) /\ GeyserOnly
  \/ GPingTick /\ GeyserOnly
  \/ \E ok \in BOOLEAN : GPingAck(ok) /\ GeyserOnly
  \/ GStreamError /\ GeyserOnly
  \/ GStreamEnd /\ GeyserOnly
  \/ GStreamDestroy /\ GeyserOnly
  \/ GStreamClose /\ GeyserOnly

SpecGeyser == Init /\ [][GeyserNext]_vars

\* One process runs one script: the WebSocket script or a geyser subscribe
\* example. The first step chooses which; the other script never starts.
WsRuns == GInit /\ WsOnly
GeyserRuns == WsInit /\ GeyserOnly

StreamsNext ==
  \/ WsOpen /\ WsRuns
  \/ subscribeToAccount(AccountPubkey) /\ WsRuns
  \/ subscribeToProgram(ProgramId) /\ WsRuns
  \/ subscribeToLogs(LogsMention) /\ WsRuns
  \/ subscribeToSignature(Signature) /\ WsRuns
  \/ subscribeToSlot /\ WsRuns
  \/ subscribeToRoot /\ WsRuns
  \/ \E call \in UnsubscribeCalls : unsubscribe(call[1], call[2]) /\ WsRuns
  \/ \E data \in Frames : WsMessage(data) /\ WsRuns
  \/ PingTick /\ WsRuns
  \/ WsError /\ WsRuns
  \/ WsClose /\ WsRuns
  \/ Sigint /\ WsRuns
  \/ GSubscribe /\ GeyserRuns
  \/ \E ok \in BOOLEAN : GRequestAck(ok) /\ GeyserRuns
  \/ GPingTick /\ GeyserRuns
  \/ \E ok \in BOOLEAN : GPingAck(ok) /\ GeyserRuns
  \/ GStreamError /\ GeyserRuns
  \/ GStreamEnd /\ GeyserRuns
  \/ GStreamDestroy /\ GeyserRuns
  \/ GStreamClose /\ GeyserRuns

SpecStreams == Init /\ [][StreamsNext]_vars

\* A call of convertBuffers on one of the inputs.
ConvertInit ==
  /\ WsInit
  /\ GInit
  /\ HInit
  /\ LInit
  /\ EInit
  /\ TInit
  /\ DInit
  /\ cInput \in ConvertInputs
  /\ cResult = Undef
  /\ cPc = "call"

ConvertNext == ConvertCall /\ UNCHANGED <<wsVars, gVars, hVars, lVars, eVars, tVars, dVars>>

SpecConvert == ConvertInit /\ [][ConvertNext]_vars

\* The steps of the HTTP helpers leave the rest alone.
HttpOnly == UNCHANGED <<wsVars, gVars, cVars, lVars, eVars, tVars, dVars>>

HttpNext ==
  \/ getBalance /\ HttpOnly
  \/ getTransaction(Signature) /\ HttpOnly
  \/ getMultipleAccounts(<<Str(AccountPubkey), Str(OwnerAddress)>>) /\ HttpOnly
  \/ getTokenAccountsByOwner(OwnerAddress) /\ HttpOnly
  \/ getProgramAccounts(ProgramId) /\ HttpOnly
  \/ \E outcome \in FetchOutcomes : HFetchSettles(outcome) /\ HttpOnly
  \/ HJsonSettles /\ HttpOnly

SpecHttp == Init /\ [][HttpNext]_vars

\* The steps of the lookup-table examples leave the rest alone.
LutOnly == UNCHANGED <<wsVars, gVars, cVars, hVars, eVars, tVars, dVars>>

LutNext ==
  \/ SlotAdvances /\ LutOnly
  \/ createLookupTableExample /\ LutOnly
  \/ createAndExtendLutExample /\ LutOnly
  \/ extendLookupTableExample /\ LutOnly
  \/ freezeLookupTableExample /\ LutOnly
  \/ deactivateLookupTableExample /\ LutOnly
  \/ closeLookupTableExample /\ LutOnly
  \/ createLutForTransactionExample /\ LutOnly
  \/ SendCreateLut /\ LutOnly
  \/ (\E ok \in BOOLEAN : CreateLutSettles(ok)) /\ LutOnly
  \/ SendBase /\ LutOnly
  \/ (\E ok \in BOOLEAN : BaseSettles(ok)) /\ LutOnly

SpecLut == Init /\ [][LutNext]_vars

\* A script starts in one of the environments.
ConfigInit ==
  /\ WsInit
  /\ GInit
  /\ CIdle
  /\ HInit
  /\ LInit
  /\ TInit
  /\ DInit
  /\ ePc = "none"
  /\ eEnv \in [EnvNames -> EnvValues]
  /\ eFile \in [EnvNames -> FileValues]
  /\ eRead = [name \in EnvNames |-> Undef]
  /\ eConst = NoConst

\* The steps of the start leave the rest alone.
ConfigOnly == UNCHANGED <<wsVars, gVars, cVars, hVars, lVars, tVars, dVars>>

ConfigNext ==
  \/ WsStart /\ ConfigOnly
  \/ GeyserStart /\ ConfigOnly
  \/ \E name \in EnvNames, value \in EnvValues : EnvChanges(name, value) /\ ConfigOnly

SpecConfig == ConfigInit /\ [][ConfigNext]_vars

\* The guide is followed from its first command, with the CLI configured in
\* one of the ways it can be before.
TokenInit ==
  /\ WsInit
  /\ GInit
  /\ CIdle
  /\ HInit
  /\ LInit
  /\ EInit
  /\ DInit
  /\ tPc = 1
  /\ tConfig \in InitialConfigs
  /\ tFiles = {}
  /\ tWallet = ""
  /\ tMintKey = ""
  /\ tMint = Null
  /\ tAccount = Null
  /\ tTxs = << >>

\* The steps of the guide leave the rest alone.
TokenOnly == UNCHANGED <<wsVars, gVars, cVars, hVars, lVars, eVars, dVars>>

TokenNext ==
  \/ \E name \in {"install", "mkdir", "cd", "config-get", "address", "ls"} :
       Plain(name) /\ TokenOnly
  \/ \E address \in WalletKeys : GrindBos(address) /\ TokenOnly
  \/ ConfigSetKeypair /\ TokenOnly
  \/ ConfigSetUrl /\ TokenOnly
  \/ \E address \in MintKeys : GrindMnt(address) /\ TokenOnly
  \/ CreateToken /\ TokenOnly
  \/ InitializeMetadata /\ TokenOnly
  \/ CreateAccount /\ TokenOnly
  \/ MintTokens /\ TokenOnly

SpecToken == TokenInit /\ [][TokenNext]_vars

DataInit ==
  /\ WsInit
  /\ GInit
  /\ CIdle
  /\ HInit
  /\ LInit
  /\ EInit
  /\ TInit
  /\ dExample \in GeyserExamples
  /\ dData \in Records
  /\ dPc = "received"
  /\ dOut = << >>

DataNext == DataCall /\ UNCHANGED <<wsVars, gVars, cVars, hVars, lVars, eVars, tVars>>

SpecData == DataInit /\ [][DataNext]_vars

(***************************************************************************)
(* Properties of the WebSocket script.                                     *)
(***************************************************************************)
\* A step of the message handler, and the frame and message it handles.
MessageStep == Len(received') = Len(received) + 1
StepFrame == received'[Len(received')]
StepMessage == JSONparse(StepFrame)

\* Whether a frame is a message with a numeric result.
NumericFrame(data) ==
  /\ JSONValid(data)
  /\ HasProps(JSONparse(data))
  /\ IsNumber(Get(JSONparse(data), "result"))

SubscribeMethods ==
  { "accountSubscribe", "programSubscribe", "logsSubscribe",
    "signatureSubscribe", "slotSubscribe", "rootSubscribe" }

\* The subscribe requests sent so far.
SentSubscribes == {i \in 1..Len(sent) : sent[i].method \in SubscribeMethods}

\* C1: when a reply arrives whose id is the id of a subscribe request sent
\* before with method m and whose result is a number n, the table holds n
\* under the key m afterwards.
C1_ReplyRecordedUnderMethod ==
  [][ \A i \in SentSubscribes :
        ( /\ MessageStep
          /\ NumericFrame(StepFrame)
          /\ Get(StepMessage, "id") = Num(sent[i].id) )
        => ( /\ sent[i].method \in DOMAIN subscriptions'
             /\ subscriptions'[sent[i].method] = Get(StepMessage, "result") ) ]_vars

\* The subscription type a table key stands for: the type of the subscribe
\* method it names, or of the subscribe request whose id it carries.
KeyType ==
  [ accountSubscribe |-> "account", subscription1 |-> "account",
    programSubscribe |-> "program", subscription2 |-> "program",
    logsSubscribe |-> "logs", subscription3 |-> "logs",
    signatureSubscribe |-> "signature", subscription4 |-> "signature",
    slotSubscribe |-> "slot", subscription5 |-> "slot",
    rootSubscribe |-> "root", subscription6 |-> "root",
    account |-> "account", slot |-> "slot" ]

\* A step of unsubscribe, and the request it sends.
UnsubscribeStep ==
  /\ Len(sent') = Len(sent) + 1
  /\ sent'[Len(sent')].id = 7

\* C2: unsubscribing with an id the table holds sends exactly one request,
\* with params [id] and the unsubscribe method of the subscription type the
\* table stores that id under.
C2_UnsubscribeMatchesStoredType ==
  [][ UnsubscribeStep =>
        LET request == sent'[Len(sent')] IN
        /\ sent' = Append(sent, request)
        /\ Len(request.params) = 1
        /\ request.params[1] \in RecordedIds
        /\ \E key \in DOMAIN subscriptions :
             /\ subscriptions[key] = request.params[1]
             /\ key \in DOMAIN KeyType
             /\ request.method = KeyType[key] \o "Unsubscribe" ]_vars

\* The frames received so far that were stored under a key, by position.
StoredAt(key) ==
  { i \in 1..Len(received) :
      /\ NumericFrame(received[i])
      /\ methodName(JSONparse(received[i])) = key }

StoredKeys ==
  { methodName(JSONparse(received[i])) :
      i \in {j \in 1..Len(received) : NumericFrame(received[j])} }

Latest(S) == CHOOSE i \in S : \A j \in S : j <= i

\* C3: the table has one entry per key, and the value under a key is the
\* result of the most recent numeric-result reply that mapped to that key.
C3_LastResponseWins ==
  /\ DOMAIN subscriptions = StoredKeys
  /\ \A key \in StoredKeys :
       subscriptions[key] = Get(JSONparse(received[Latest(StoredAt(key))]), "result")

\* Two replies of the same key with different ids were received: the table
\* holds the later id and no longer the earlier one.
C3_Witness ==
  \E key \in DOMAIN subscriptions :
    \E i \in StoredAt(key), j \in StoredAt(key) :
      /\ i < j
      /\ Get(JSONparse(received[i]), "result") # Get(JSONparse(received[j]), "result")
      /\ subscriptions[key] = Get(JSONparse(received[j]), "result")
      /\ Get(JSONparse(received[i]), "result") \notin RecordedIds

\* C4 as stated: the table changes only on a message with a numeric result
\* whose id is the id of a subscribe request sent before.
C4_OnlyCorrelatedReplies ==
  [][ subscriptions' # subscriptions =>
        /\ MessageStep
        /\ NumericFrame(StepFrame)
        /\ \E i \in SentSubscribes : Get(StepMessage, "id") = Num(sent[i].id) ]_vars

\* C4: the table changes only on a message with a numeric result, and every
\* such message is stored, whatever its id: the id is not compared with the
\* requests sent.
C4_OnlyNumericResults ==
  [][ /\ subscriptions' # subscriptions => (MessageStep /\ NumericFrame(StepFrame))
      /\ (MessageStep /\ NumericFrame(StepFrame)) =>
           /\ methodName(StepMessage) \in DOMAIN subscriptions'
           /\ subscriptions'[methodName(StepMessage)] = Get(StepMessage, "result")
      /\ (MessageStep /\ ~NumericFrame(StepFrame)) => subscriptions' = subscriptions ]_vars

\* The table holds an id from a reply whose id no sent request carries, and
\* a reply to unsubscribe (a result that is no number) left no entry.
C4_Witness ==
  /\ "subscription9" \in DOMAIN subscriptions
  /\ \A i \in 1..Len(sent) : sent[i].id # 9
  /\ \E i \in 1..Len(received) : received[i] = FrameUnsubReply
  /\ "subscription7" \notin DOMAIN subscriptions

\* C5: a key of the table stays in the table in every later state.
C5_NeverEvicted ==
  [][ \A key \in DOMAIN subscriptions : key \in DOMAIN subscriptions' ]_vars

\* The table still holds its entry after a ping tick and the close of the
\* connection.
C5_Witness ==
  /\ readyState = "CLOSED"
  /\ ticks >= 1
  /\ DOMAIN subscriptions # {}

\* C6: every tick of the interval sends a ping when the socket is open and
\* none when it is not; a socket that has left OPEN does not return to it, so
\* that no ping follows.
C6_PingWhileOpen ==
  [][ /\ ticks' = ticks + 1 => (pings' = pings + 1 <=> readyState = "OPEN")
      /\ ticks' = ticks + 1 => pings' \in {pings, pings + 1}
      /\ pings' # pings => (ticks' = ticks + 1 /\ readyState = "OPEN")
      /\ readyState \in {"CLOSING", "CLOSED"} => readyState' \in {"CLOSING", "CLOSED"} ]_vars

\* A tick pinged while the socket was open and a later tick, after the
\* close, did not.
C6_Witness ==
  /\ readyState = "CLOSED"
  /\ pings >= 1
  /\ ticks > pings

DispatchTexts ==
  {NotificationLines[m] : m \in DOMAIN NotificationLines} \cup {"Received message:"}

IsDispatchLine(line) == line.text \in DispatchTexts

\* C9: for a frame that parses as JSON the handler emits exactly one dispatch
\* line: the line of the notification, carrying params.result, when method is
\* a notification name, and the generic line otherwise; a notification leaves
\* the table as it was.
C9_OneDispatchLine ==
  [][ (MessageStep /\ JSONValid(StepFrame)) =>
        LET lines == SelectSeq(out', IsDispatchLine) IN
        /\ Len(lines) = 1
        /\ IF IsNotification(StepMessage)
           THEN /\ lines[1].text = NotificationLines[Get(StepMessage, "method").s]
                /\ lines[1].arg = Get(Get(StepMessage, "params"), "result")
           ELSE lines[1] = Line("Received message:", StepMessage)
        /\ StepFrame = FrameSlotNote =>
             /\ lines[1].arg = Obj([slot |-> Num(12345)])
             /\ subscriptions' = subscriptions ]_vars

\* C10: a frame that is not valid JSON is caught in the handler and logged:
\* the handler does not throw, the socket keeps its state, nothing is sent
\* and the table is unchanged.
C10_BadJsonCaught ==
  [][ (MessageStep /\ ~JSONValid(StepFrame)) =>
        /\ out' = <<Line(ParseErrorText, Str("SyntaxError"))>>
        /\ proc' = "running"
        /\ readyState' = readyState
        /\ sent' = sent
        /\ subscriptions' = subscriptions
        /\ pings' = pings ]_vars

\* A frame that is not valid JSON was followed by a reply, which was handled
\* as usual: it is in the table.
C10_Witness ==
  /\ Len(received) >= 2
  /\ received[Len(received) - 1] = FrameBad
  /\ received[Len(received)] = FrameSlotReply
  /\ "subscription5" \in DOMAIN subscriptions
  /\ subscriptions["subscription5"] = Num(5)
  /\ readyState = "OPEN"
  /\ proc = "running"

BinaryShaped(v) ==
  \/ v.k = "uint8array"
  \/ /\ v.k = "object"
     /\ "type" \in DOMAIN v.f /\ v.f["type"] = Str("Buffer")
     /\ "data" \in DOMAIN v.f /\ v.f["data"].k = "array"

IsScalar(v) == v.k \in {"number", "string", "boolean", "null", "undefined"}

\* The bytes of a binary-shaped field and its base58 string.
BytesOf(v) ==
  IF v.k = "uint8array" THEN v.b
  ELSE [i \in 1..Len(v.f["data"].a) |-> ToByte(v.f["data"].a[i])]

Base58Of(v) == Str(bs58encode(BytesOf(v)))

\* The step of a path that enters the element i of an array.
IndexKey(i) == "#" \o NumToStr(i)

RECURSIVE PathsOf(_)
\* The paths to the fields of a value, a binary-shaped field being one field.
PathsOf(v) ==
  IF BinaryShaped(v) THEN {<< >>}
  ELSE IF v.k = "array"
  THEN {<< >>} \cup UNION {{<<IndexKey(i)>> \o p : p \in PathsOf(v.a[i])} : i \in 1..Len(v.a)}
  ELSE IF v.k = "object"
  THEN {<< >>} \cup UNION {{<<key>> \o p : p \in PathsOf(v.f[key])} : key \in DOMAIN v.f}
  ELSE {<< >>}

Missing == [k |-> "missing"]

RECURSIVE At(_, _)
\* The field of a value at a path, Missing when the value has no such field.
At(v, p) ==
  IF p = << >> THEN v
  ELSE IF v.k = "array"
  THEN IF \E i \in 1..Len(v.a) : IndexKey(i) = Head(p)
       THEN At(v.a[CHOOSE i \in 1..Len(v.a) : IndexKey(i) = Head(p)], Tail(p))
       ELSE Missing
  ELSE IF v.k = "object" /\ Head(p) \in DOMAIN v.f
  THEN At(v.f[Head(p)], Tail(p))
  ELSE Missing

\* Whether a path passes through one of the keys convertBuffers copies.
ThroughSkipKey(p) == \E i \in 1..Len(p) : p[i] \in SkipKeys

\* The paths that end at the first such key.
EndsAtSkipKey(p) ==
  /\ p # << >>
  /\ p[Len(p)] \in SkipKeys
  /\ ~ThroughSkipKey(SubSeq(p, 1, Len(p) - 1))

\* C8 as stated: in the result every binary-shaped field, at any depth, is
\* its base58 string and every scalar field equals the input's.
C8_EveryBinaryConverted ==
  cPc = "done" =>
    \A p \in PathsOf(cInput) :
      /\ BinaryShaped(At(cInput, p)) => At(cResult, p) = Base58Of(At(cInput, p))
      /\ IsScalar(At(cInput, p)) => At(cResult, p) = At(cInput, p)

\* C8: the same for the fields that are not stored under, or nested below,
\* a key named uiAmount, decimals or uiAmountString; the value under such a
\* key is copied as it is.
C8_BinaryConvertedExceptSkipped ==
  cPc = "done" =>
    \A p \in PathsOf(cInput) :
      /\ (~ThroughSkipKey(p) /\ BinaryShaped(At(cInput, p))) =>
           At(cResult, p) = Base58Of(At(cInput, p))
      /\ (~ThroughSkipKey(p) /\ IsScalar(At(cInput, p))) =>
           At(cResult, p) = At(cInput, p)
      /\ EndsAtSkipKey(p) => At(cResult, p) = At(cInput, p)

\* A binary-shaped field two levels down was replaced by its base58 string
\* ([0, 1] encodes as "12") beside a scalar that was kept.
C8_Witness ==
  /\ cPc = "done"
  /\ cInput = Obj([a |-> Arr(<<Num(6), BufferObject(<<Num(0), Num(1)>>)>>)])
  /\ cResult = Obj([a |-> Arr(<<Num(6), Str("12")>>)])

(***************************************************************************)
(* One connection for the life of the process.                             *)
(***************************************************************************)
\* The socket has failed or closed.
SocketOver == readyState \in {"CLOSING", "CLOSED"}

\* The geyser stream has errored (its handler ended it), ended or closed.
StreamOver == gWritable = "ended" \/ gReadEnded \/ gClosed

\* C11: each streaming script opens one connection and never reconnects. The
\* WebSocket script has opened exactly one socket at any time, and once the
\* socket has failed or closed it never connects or opens again and no
\* subscribe request is sent any more. A geyser example writes at most one
\* subscribe request, and once its stream has errored, ended or closed the
\* stream stays so, no subscribe request is written and the example does not
\* start over.
C11_NeverReconnects ==
  [][ /\ sockets' = 1
      /\ SocketOver => SocketOver' /\ SentSubscribes' = SentSubscribes
      /\ gRequests' <= 1
      /\ StreamOver =>
           /\ StreamOver'
           /\ gWritable = "ended" => gWritable' = "ended"
           /\ gReadEnded => gReadEnded'
           /\ gClosed => gClosed'
           /\ gRequests' = gRequests
           /\ gPc' \in {"idle", "writing"} => gPc' = gPc ]_vars

\* The socket closed after two subscribe requests; the process is still
\* running and has opened one socket.
C11_Witness ==
  /\ readyState = "CLOSED"
  /\ proc = "running"
  /\ sockets = 1
  /\ Cardinality(SentSubscribes) = 2

(***************************************************************************)
(* The HTTP query helpers.                                                 *)
(***************************************************************************)
\* C12: every helper call hands exactly one request to fetch, a POST to the
\* fixed endpoint; a call that returned gave its caller the decoded body of
\* the response as it is, and a call that failed gave its caller the failure
\* of fetch or of the decoding, without another request.
C12_OnePostSameOutcome ==
  /\ Len(hPosted) = hCalls
  /\ \A i \in 1..Len(hPosted) :
       hPosted[i].url = Endpoint /\ hPosted[i].method = "POST"
  /\ hPc = "returned" => hResult = BodyJson(hReply.body)
  /\ hPc = "rejected" =>
       hResult = IF hReply.k = "failure" THEN Err(hReply.e) ELSE Err("SyntaxError")

\* The second call got a body that does not decode and rejected; two requests
\* were made, one for each call.
C12_Witness ==
  /\ hCalls = 2
  /\ Len(hPosted) = 2
  /\ hPc = "rejected"
  /\ hReply = Response(502, BodyHtml)
  /\ hResult = Err("SyntaxError")

(***************************************************************************)
(* The lookup-table examples.                                              *)
(***************************************************************************)
UsingExamples ==
  { "extendLookupTableExample", "freezeLookupTableExample",
    "deactivateLookupTableExample", "closeLookupTableExample" }

\* C13: when one of the extend, freeze, deactivate and close examples runs
\* after a table was created, the address it passes is the address of a
\* created table, however many slots have gone by since.
C13_PassesCreatedAddress ==
  [][ /\ Len(lRuns') = Len(lRuns) + 1
      /\ lRuns'[Len(lRuns')].fn \in UsingExamples
      /\ lTables # {}
      => lRuns'[Len(lRuns')].address \in lTables ]_vars

(***************************************************************************)
(* The signal, the requests and the table of the WebSocket script.         *)
(***************************************************************************)
\* C14: the step in which the process exits is the SIGINT handler's: it has
\* asked the socket to close (the socket is CLOSING, or was CLOSED already),
\* the exit is the one with status 0, and neither that step nor any later one
\* sends a request or a ping.
C14_SigintClosesThenExits ==
  [][ /\ proc = "running" /\ proc' # "running" =>
           /\ proc' = "exited"
           /\ readyState' \in {"CLOSING", "CLOSED"}
           /\ out' = <<Line("Closing WebSocket connection...", Undef)>>
           /\ sent' = sent
           /\ pings' = pings
      /\ proc # "running" => sent' = sent /\ pings' = pings /\ proc' = proc ]_vars

\* The signal came while the socket was open, after a request and a ping.
C14_Witness ==
  /\ proc = "exited"
  /\ readyState = "CLOSING"
  /\ pingTimer
  /\ Len(sent) >= 1
  /\ pings >= 1

(***************************************************************************)
(* The configuration.                                                      *)
(***************************************************************************)
\* The value of a variable when it is set and not empty, the placeholder
\* otherwise.
SetOrPlaceholder(value, placeholder) ==
  IF value.k = "string" /\ value.s # "" THEN value ELSE Str(placeholder)

\* C15: the API key of the WebSocket script and the endpoint URL and access
\* token of the geyser script are the values the environment had when the
\* script started, where they were set and not empty, and the placeholders
\* otherwise; once defined they do not change, whatever the environment
\* becomes.
C15_ConfigReadOnce ==
  /\ [](ePc = "ws" =>
          eConst.HELIUS_API_KEY =
            SetOrPlaceholder(eRead["HELIUS_API_KEY"], "your-api-key-here"))
  /\ [](ePc = "geyser" =>
          /\ eConst.GRPC_URL =
               SetOrPlaceholder(eRead["HELIUS_GEYSER_URL"], "your-geyser-url-here")
          /\ eConst.X_TOKEN =
               SetOrPlaceholder(eRead["HELIUS_X_TOKEN"], "your-x-token-here"))
  /\ [][ePc # "none" => ePc' = ePc /\ eConst' = eConst /\ eRead' = eRead]_vars

\* The WebSocket script started with an empty HELIUS_API_KEY and took the
\* placeholder; the variable was set afterwards and the constant stayed.
C15_Witness ==
  /\ ePc = "ws"
  /\ eRead["HELIUS_API_KEY"] = Str("")
  /\ eEnv["HELIUS_API_KEY"] = Str("k1")
  /\ eConst.HELIUS_API_KEY = Str("your-api-key-here")
  /\ eConst.HELIUS_WSS_URL =
       Str("wss://mainnet.helius-rpc.com/?api-key=your-api-key-here")

(***************************************************************************)
(* The token walkthrough.                                                  *)
(***************************************************************************)
\* The places in the transactions submitted where a command occurs.
TxsOf(command) == {i \in 1..Len(tTxs) : tTxs[i].command = command}

RequestIds ==
  [ accountSubscribe |-> 1, programSubscribe |-> 2, logsSubscribe |-> 3,
    signatureSubscribe |-> 4, slotSubscribe |-> 5, rootSubscribe |-> 6 ]

\* C17: a call of a subscribe function or of unsubscribe adds exactly one
\* request to those sent, with the id of its function (1 to 6 by method, 7
\* for unsubscribe), and leaves the table as it is; among the subscribe
\* requests sent, two have the same id exactly when they have the same
\* method.
C17_OneRequestFixedId ==
  /\ [][ sent' # sent =>
           /\ Len(sent') = Len(sent) + 1
           /\ SubSeq(sent', 1, Len(sent)) = sent
           /\ LET request == sent'[Len(sent')]
              IN IF request.method \in SubscribeMethods
                 THEN request.id = RequestIds[request.method]
                 ELSE request.id = 7
           /\ subscriptions' = subscriptions ]_vars
  /\ [](\A i, j \in SentSubscribes :
          sent[i].id = sent[j].id <=> sent[i].method = sent[j].method)

\* subscribeToSlot was called twice and subscribeToRoot once: ids 5, 5, 6,
\* and the table is empty still.
C17_Witness ==
  /\ Len(sent) = 3
  /\ sent[1] = sent[2]
  /\ sent[1].method = "slotSubscribe"
  /\ sent[1].id = 5
  /\ sent[3].method = "rootSubscribe"
  /\ sent[3].id = 6
  /\ subscriptions = << >>

C19_ErrorBranchKeepsTable ==
  [][ /\ MessageStep
      /\ \E i \in 1..Len(out') : out'[i].text = ParseErrorText
      => subscriptions' = subscriptions ]_vars

(***************************************************************************)
(* The start of a geyser subscribe example.                                *)
(***************************************************************************)
\* C20: a subscribe request is written only with the stream's handlers
\* registered, and one at most; the keep-alive interval starts only in the
\* step in which that write is acknowledged without an error, so that before
\* the acknowledgement no interval runs and no tick or ping has happened;
\* when the write fails, the error of the write is logged by sendRequest and
\* by main's catch, the example has failed for good and its interval never
\* runs.
C20_KeepAliveAfterAcknowledgedWrite ==
  /\ [](gRequests > 0 => gHandlers)
  /\ [](gRequests <= 1)
  /\ [](gPc \in {"idle", "writing", "failed"} =>
          ~gInterval /\ gTicks = 0 /\ gPingWrites = 0)
  /\ [](gPc = "failed" <=> gCaught # Undef)
  /\ [][ /\ gInterval' /\ ~gInterval =>
              gPc = "writing" /\ gPc' = "streaming" /\ WriteCanSucceed
         /\ gPc = "writing" /\ gPc' = "failed" =>
              /\ gCaught' = WriteError
              /\ gOut' = <<Line("Failed to send subscribe request:", WriteError),
                           Line("", WriteError),
                           Line("Error in main function:", WriteError)>>
         /\ gPc = "failed" => gPc' = "failed" /\ gCaught' = gCaught ]_vars

\* The stream was ended by its error handler before the write was
\* acknowledged; the write failed, main's catch logged its error and no
\* interval runs, while the stream went on to close.
C20_Witness ==
  /\ gPc = "failed"
  /\ gCaught = Str("ERR_STREAM_WRITE_AFTER_END")
  /\ gHandlers
  /\ gRequests = 1
  /\ ~gInterval
  /\ gClosed

(***************************************************************************)
(* The failed ping, the stream-closed promise and the data handlers.       *)
(***************************************************************************)
\* The step in which a ping's write calls back with an error.
PingFails ==
  /\ gPending' = gPending - 1
  /\ gOut' = <<Line("Failed to send ping:", Str("Error"))>>

\* C21: the step in which a ping write fails leaves the interval cleared,
\* whatever the state of the stream; and an example whose interval is
\* cleared keeps it cleared and writes no ping again.
C21_FailedPingStopsKeepAlive ==
  [][ /\ PingFails => ~gInterval'
      /\ gPc = "streaming" /\ ~gInterval =>
           ~gInterval' /\ gPingWrites' = gPingWrites ]_vars

\* A ping failed on a stream that is open, not ended and not destroyed: the
\* interval is cleared although ticks were still to come.
C21_Witness ==
  /\ gPc = "streaming"
  /\ gOut = <<Line("Failed to send ping:", Str("Error"))>>
  /\ ~gInterval
  /\ gWritable = "open"
  /\ ~gReadEnded
  /\ ~gDestroyed
  /\ ~gClosed
  /\ gPingWrites = 1
  /\ gTicks < MaxGeyserTicks

\* The steps of the stream's handlers.
StreamErrorStep == gOut' = <<Line("Stream error:", Str("Error"))>>
StreamEndStep == gReadEnded' /\ ~gReadEnded
StreamCloseStep == gClosed' /\ ~gClosed

\* C22: the error handler logs the error and ends the stream. The
\* stream-closed promise changes only while pending and only in a step of the
\* error, end or close handler: the error handler rejects it, the end and
\* close handlers resolve it, and a settled promise stays as it is. The error
\* handler does not reach main's catch, which has logged nothing at any time
\* after the subscribe request was acknowledged.
C22_StreamClosedSettlesOnce ==
  [][ /\ StreamErrorStep => gWritable' = "ended" /\ gCaught' = gCaught
      /\ gStreamClosed # "pending" => gStreamClosed' = gStreamClosed
      /\ gStreamClosed' # gStreamClosed =>
           StreamErrorStep \/ StreamEndStep \/ StreamCloseStep
      /\ gStreamClosed = "pending" /\ StreamErrorStep => gStreamClosed' = "rejected"
      /\ gStreamClosed = "pending" /\ (StreamEndStep \/ StreamCloseStep) =>
           gStreamClosed' = "resolved"
      /\ gPc = "streaming" => gPc' = "streaming" /\ gCaught' = Undef ]_vars

\* The stream erred first, after the subscription, then ended and closed:
\* the promise is rejected still, and main's catch has logged nothing.
C22_Witness ==
  /\ gPc = "streaming"
  /\ gStreamClosed = "rejected"
  /\ gWritable = "ended"
  /\ gReadEnded
  /\ gClosed
  /\ gCaught = Undef


(***************************************************************************)
(* Properties of the geyser data handlers.                                 *)
(***************************************************************************)
\* The payload an example's handler prints, and the first line it prints.
PayloadOf(example) ==
  CASE example = "subscribeToSlots" -> "slot"
    [] example \in {"subscribeToAccounts", "subscribeToProgramAccounts"} -> "account"
    [] example = "subscribeToTransactions" -> "transaction"
    [] OTHER -> "block"

HeaderOf(example, data) ==
  CASE example = "subscribeToSlots" ->
         ": Received slot update: " \o TemplateStr(Get(Get(data, "slot"), "slot"))
    [] example = "subscribeToAccounts" -> ": Received account update:"
    [] example = "subscribeToProgramAccounts" -> ": Received program account update:"
    [] example = "subscribeToTransactions" -> ": Received transaction update:"
    [] OTHER -> ": Received block update:"

HasPayload == Truthy(Get(dData, PayloadOf(dExample)))
HasPong == Truthy(Get(dData, "pong"))

\* The slot and account handlers also read the name of the filter.
NamesFilter ==
  \/ dExample \in {"subscribeToTransactions", "subscribeToBlocks"}
  \/ /\ Get(dData, "filters").k = "array"
     /\ Get(dData, "filters").a # << >>
     /\ Get(dData, "filters").a[1] = Str(PayloadOf(dExample))

HandlerRuns == dPc = "received" /\ dPc' # "received"

PrintedAsUpdate ==
  /\ dOut' # << >>
  /\ dOut'[1] = Line(HeaderOf(dExample, dData), Undef)
  /\ \A i \in 1..Len(dOut') : dOut'[i] # PongLine

PrintedAsPing == dOut' = <<PongLine>> /\ dPc' = "handled"

Ignored == dOut' = << >> /\ dPc' = "handled"

NothingElseChanges == UNCHANGED <<dExample, dData, gVars>>

\* C23 as stated: a handler prints a record that has the example's payload
\* as an update, pong or not; it prints a record with only a pong as a ping
\* response; it ignores every other record.
C23_PayloadPrintedAsUpdate ==
  [][ HandlerRuns =>
        /\ HasPayload => PrintedAsUpdate
        /\ ~HasPayload /\ HasPong => PrintedAsPing
        /\ ~HasPayload /\ ~HasPong => Ignored /\ NothingElseChanges ]_vars

\* C23, amended: a record is an update when it has the example's payload and,
\* for the slot and account handlers, its first filter name is the example's.
\* An update is printed as an update only, its header first, pong or not; any
\* other record with a pong is printed as a ping response only; every other
\* record leaves no line and no change.
C23_OneBranchPerRecord ==
  [][ HandlerRuns =>
        /\ HasPayload /\ NamesFilter => PrintedAsUpdate
        /\ ~(HasPayload /\ NamesFilter) /\ HasPong => PrintedAsPing
        /\ ~(HasPayload /\ NamesFilter) /\ ~HasPong => Ignored
        /\ dPc' = "threw" => HasPayload /\ NamesFilter
        /\ NothingElseChanges ]_vars

C23_Witness ==
  /\ dExample = "subscribeToAccounts"
  /\ Truthy(Get(dData, "pong"))
  /\ Get(dData, "filters") = Arr(<<Str("account")>>)
  /\ Encodes(Get(Get(dData, "account"), "pubkey"))
  /\ dPc = "handled"
  /\ Len(dOut) = 5
  /\ dOut[2] = Line("  Account: 2", Undef)


(***************************************************************************)
(* Properties of createLutForTransactionExample.                           *)
(***************************************************************************)
Confirmed(i) == lTxSent[i].status = "confirmed"

\* The transactions sent are the creations in list order, each once, and
\* then the base transaction; each but the last is confirmed.
SentInOrder ==
  \A i \in 1..Len(lTxSent) :
    /\ i <= lTxBuilders => lTxSent[i].kind = "create" /\ lTxSent[i].index = i
    /\ i > lTxBuilders => lTxSent[i].kind = "base" /\ i = lTxBuilders + 1
    /\ \A j \in 1..(i - 1) : Confirmed(j)

\* What was sent stays sent: a step sends one more transaction or settles
\* the one in flight.
SendsOrSettles ==
  lTxSent' # lTxSent /\ lTxSent # << >> =>
    \/ /\ Len(lTxSent') = Len(lTxSent) + 1
       /\ SubSeq(lTxSent', 1, Len(lTxSent)) = lTxSent
       /\ lTxSent'[Len(lTxSent')].status = "pending"
    \/ /\ Len(lTxSent') = Len(lTxSent)
       /\ lTxSent[Len(lTxSent)].status = "pending"
       /\ lTxSent' = [lTxSent EXCEPT ![Len(lTxSent)].status = lTxSent'[Len(lTxSent)].status]

\* C24: the base transaction is sent only after every creation has been sent
\* and confirmed, in list order and one at a time; no transaction is sent
\* twice, and nothing is sent after a failed one.
C24_BaseAfterEveryCreation ==
  /\ [](SentInOrder /\ (lTxPc = "done" => Len(lTxSent) = lTxBuilders + 1
                                           /\ Confirmed(Len(lTxSent))))
  /\ [][SendsOrSettles]_vars

C24_Witness ==
  /\ lTxPc = "done"
  /\ lTxBuilders = MaxLutBuilders
  /\ Len(lTxSent) = MaxLutBuilders + 1
  /\ lTxSent[Len(lTxSent)].kind = "base"

C24_FailedCreationStops ==
  /\ lTxPc = "failed"
  /\ lTxBuilders = MaxLutBuilders
  /\ lTxSent = <<[kind |-> "create", index |-> 1, status |-> "failed"]>>


(***************************************************************************)
(* The keys convertBuffers copies, the second conversion and the shape of  *)
(* the result.                                                             *)
(***************************************************************************)
RECURSIVE AllPaths(_)
\* The paths to every field of a value, the parts of a binary-shaped field
\* too.
AllPaths(v) ==
  IF v.k = "array"
  THEN {<< >>} \cup UNION {{<<IndexKey(i)>> \o p : p \in AllPaths(v.a[i])} : i \in 1..Len(v.a)}
  ELSE IF v.k = "object"
  THEN {<< >>} \cup UNION {{<<key>> \o p : p \in AllPaths(v.f[key])} : key \in DOMAIN v.f}
  ELSE {<< >>}

\* Whether a path is to a value convertBuffers visits: no step before the
\* last is into a binary-shaped field or through one of the three keys.
Visited(v, p) ==
  \A n \in 0..(Len(p) - 1) :
    /\ ~BinaryShaped(At(v, SubSeq(p, 1, n)))
    /\ At(v, SubSeq(p, 1, n)).k = "object" =>
         p[n + 1] \notin {"uiAmount", "decimals", "uiAmountString"}

\* The paths to the values stored under one of the three keys in an object
\* convertBuffers visits.
UnderCopiedKey(v, p) ==
  /\ p # << >>
  /\ p[Len(p)] \in {"uiAmount", "decimals", "uiAmountString"}
  /\ Visited(v, SubSeq(p, 1, Len(p) - 1))
  /\ At(v, SubSeq(p, 1, Len(p) - 1)).k = "object"
  /\ ~BinaryShaped(At(v, SubSeq(p, 1, Len(p) - 1)))

\* C25: the value stored under a key named uiAmount, decimals or
\* uiAmountString, at any depth, is in the result as it is in the input,
\* whatever it is and whatever it contains.
C25_CopiedKeysUntouched ==
  cPc = "done" =>
    \A p \in AllPaths(cInput) :
      UnderCopiedKey(cInput, p) => At(cResult, p) = At(cInput, p)

\* A binary-shaped value under decimals, one level down, beside a field that
\* was converted; and a value under uiAmount that contains a binary-shaped
\* field.
C25_Witness ==
  /\ cPc = "done"
  /\ \/ /\ cInput = Obj([a |-> Obj([a |-> U8(<<255, 1>>), decimals |-> U8(<<255, 1>>)])])
        /\ cResult = Obj([a |-> Obj([a |-> Str("LQY"), decimals |-> U8(<<255, 1>>)])])
     \/ /\ cInput = Obj([uiAmount |-> Arr(<<Num(6), U8(<<255, 1>>)>>)])
        /\ cResult = cInput


\* Whether converting a value gives an object of the Buffer shape that the
\* value did not have: a visited object that is not binary-shaped, with an
\* array data and a binary-shaped type that is written "Buffer".
BecomesBufferShaped(v) ==
  \E p \in AllPaths(v) :
    /\ Visited(v, p)
    /\ At(v, p).k = "object"
    /\ ~BinaryShaped(At(v, p))
    /\ Get(At(v, p), "data").k = "array"
    /\ BinaryShaped(Get(At(v, p), "type"))
    /\ Base58Of(Get(At(v, p), "type")) = Str("Buffer")

\* C26 as stated: converting the result again gives the result.
C26_Idempotent == cPc = "done" => convertBuffers(cResult) = cResult

\* C26, amended: converting the result again gives the result, unless the
\* input holds an object with an array data and a binary type whose base58
\* string is "Buffer", which the first conversion turns into the Buffer shape.
C26_IdempotentUnlessBufferMade ==
  cPc = "done" /\ ~BecomesBufferShaped(cInput) => convertBuffers(cResult) = cResult

\* A second conversion has nothing to do on a result that keeps a binary
\* value under decimals beside a converted one.
C26_Witness ==
  /\ cPc = "done"
  /\ cInput = Arr(<<Obj([a |-> U8(<<255, 1>>), decimals |-> BufferObject(<<Num(0), Num(1)>>)])>>)
  /\ cResult = Arr(<<Obj([a |-> Str("LQY"), decimals |-> BufferObject(<<Num(0), Num(1)>>)])>>)
  /\ convertBuffers(cResult) = cResult

\* The object {type: <bytes>, data: [1]} became {type: "Buffer", data: [1]},
\* which a second conversion replaces by the string "2".
C26_BufferMade ==
  /\ cPc = "done"
  /\ cInput = Obj([type |-> BufferBytes, data |-> Arr(<<Num(1)>>)])
  /\ cResult = BufferObject(<<Num(1)>>)
  /\ convertBuffers(cResult) = Str("2")


\* An object or array of the result stands where the input has an object
\* with the same keys, or an array of the same length.
SameShapeAt(p) ==
  /\ At(cResult, p).k = "object" =>
       /\ At(cInput, p).k = "object"
       /\ DOMAIN At(cResult, p).f = DOMAIN At(cInput, p).f
  /\ At(cResult, p).k = "array" =>
       /\ At(cInput, p).k = "array"
       /\ Len(At(cResult, p).a) = Len(At(cInput, p).a)

\* An object or array of the input that convertBuffers visits is in the
\* result with every key, and with every element at its place: the element
\* i of the result is the conversion of the element i of the input.
KeptAt(p) ==
  /\ At(cInput, p).k = "object" /\ ~BinaryShaped(At(cInput, p)) =>
       /\ At(cResult, p).k = "object"
       /\ DOMAIN At(cResult, p).f = DOMAIN At(cInput, p).f
  /\ At(cInput, p).k = "array" =>
       /\ At(cResult, p).k = "array"
       /\ Len(At(cResult, p).a) = Len(At(cInput, p).a)
       /\ \A i \in 1..Len(At(cInput, p).a) :
            At(cResult, p).a[i] = convertBuffers(At(cInput, p).a[i])

\* C27: the call leaves its argument as it was, and the result has the
\* input's shape: the same keys in every object and the same length and
\* order in every array.
C27_ArgumentKeptShapePreserved ==
  /\ [](cPc = "done" =>
          /\ \A p \in AllPaths(cResult) : SameShapeAt(p)
          /\ \A p \in AllPaths(cInput) : Visited(cInput, p) => KeptAt(p))
  /\ [][cInput' = cInput]_vars

\* An object with a converted key and a copied key inside an array.
C27_Witness ==
  /\ cPc = "done"
  /\ cInput = Arr(<<Obj([a |-> BufferObject(<<Num(300)>>), decimals |-> Num(6)])>>)
  /\ cResult = Arr(<<Obj([a |-> Str("m"), decimals |-> Num(6)])>>)

=============================================================================
